---- MODULE Spec2Model ----
(***************************************************************************)
(* Bar-Blinker: a Raspberry Pi button controller for a WLED strip.         *)
(*                                                                         *)
(* The model follows src/bar-blinker.py.  Every thread of the program      *)
(* (hardware button loop, connection supervisor, Flask request threads)    *)
(* owns a call stack of frames [fn, pc, locals]; one action is one step    *)
(* of one function between two accesses to shared state or to the device.  *)
(* The device answers every request with a nondeterministic outcome.       *)
(***************************************************************************)
EXTENDS Integers, Sequences, FiniteSets, TLC

(***************************************************************************)
(* Configuration values (class Config), at their defaults.                 *)
(***************************************************************************)
MAX_RETRIES == 3
FLASH_BRIGHTNESS == 255
DEFAULT_EFFECT_INDEX == 162
DEFAULT_EFFECT_SPEED == 128
DEFAULT_EFFECT_INTENSITY == 128

(***************************************************************************)
(* Bounds of the model.                                                    *)
(***************************************************************************)
(* Config.MAX_FAILED_ATTEMPTS, configured small enough for the critical    *)
(* status to be within MaxFailures                                         *)
MAX_FAILED_ATTEMPTS == 2
(* LED count the device reports in /json/info *)
LedCount == 30
(* the device fails a request only while fewer than MaxFailures failures   *)
(* in a row are on record                                                  *)
MaxFailures == 3
(* wait_for_connection is answered at the latest on attempt MaxAttempt     *)
MaxAttempt == 2

Threads == {"hw", "sup", "w1", "w2"}
NoThread == "nobody"
NoState == <<>>

VARIABLES
    is_connected,   \* WLEDController.is_connected
    led_count,      \* WLEDController.led_count
    last_state,     \* WLEDController._last_state
    state_lock,     \* holder of WLEDController._state_lock, or NoThread
    flashing,       \* WLEDController._flashing
    system_health,  \* SystemHealth fields
    DEFAULT_MODE,   \* Config.DEFAULT_MODE
    devState,       \* the visual state the device acknowledged last
    role,           \* what each thread runs
    line,           \* GPIO.input(Config.BUTTON_PIN): 0 pressed, 1 released
    newest,         \* the thread that set flashing = True last (history)
    stack,          \* call stack of each thread
    ret,            \* value returned by the call a thread made last
    obs,            \* per-thread record of what its calls did (history)
    config,         \* class Config, the fields a request can change
    recorded,       \* history: the record_* calls of SystemHealth that returned
    reachable,      \* the device on the network: "up", "down", "restored"
    ini,            \* the INI file: what write_to_ini wrote last
    now,            \* time.time(), in ticks of the clock of the web layer
    requests_per_ip,\* rate_limit: per decorated route, the admissions per IP
    effects_cache   \* _effects_cache and _effects_cache_time

vars == <<is_connected, led_count, last_state, state_lock, flashing,
          system_health, DEFAULT_MODE, devState, role, line, newest, stack,
          ret, obs, config, recorded, reachable, ini, now,
          requests_per_ip, effects_cache>>

(* what no step of the device client changes *)
env == <<role, line, newest, config, recorded, reachable, ini, now,
        requests_per_ip, effects_cache>>

(***************************************************************************)
(* Payloads posted to /json/state.                                         *)
(***************************************************************************)
ColorState(r, g, b, brightness) == <<"col", r, g, b, brightness>>

EffectState(effect_index) ==
    <<"fx", effect_index, DEFAULT_EFFECT_SPEED, DEFAULT_EFFECT_INTENSITY,
      FLASH_BRIGHTNESS>>

WHITE == ColorState(255, 255, 255, FLASH_BRIGHTNESS)
RED == ColorState(255, 0, 0, FLASH_BRIGHTNESS)
BLUE == ColorState(0, 0, 255, FLASH_BRIGHTNESS)
OFF == ColorState(0, 0, 0, 0)

(***************************************************************************)
(* class Config: the fields of the configuration that requests change.     *)
(* Durations are in hundredths of a second.                                *)
(***************************************************************************)
RECONNECT_DELAY == 500
(* max_delay = 60 *)
max_delay == 6000

FLASH_INTERVAL == 50
(* if not (0 <= cls.DEFAULT_EFFECT_INDEX <= 200) *)
MaxEffectIndex == 200

DefaultConfig ==
    [WLED_IP |-> "192.168.1.15",
     FLASH_INTERVAL |-> FLASH_INTERVAL,
     FLASH_BRIGHTNESS |-> FLASH_BRIGHTNESS,
     RECONNECT_DELAY |-> RECONNECT_DELAY,
     DEFAULT_EFFECT_SPEED |-> DEFAULT_EFFECT_SPEED,
     DEFAULT_EFFECT_INDEX |-> DEFAULT_EFFECT_INDEX]

(* the routes carrying @rate_limit, each with a requests_per_ip of its own *)
Routes == {"index", "update_config", "simulate_press", "health"}

(* bound: the client addresses *)
Addresses == {"10.0.0.1", "10.0.0.2"}

(* requests_per_ip = {}: an address without a key counts as an empty list *)
NoRequests == [route \in Routes |-> [ip \in Addresses |-> <<>>]]

(* self._effects_cache = None; self._effects_cache_time = None *)
NoCache == [cached |-> FALSE, effects |-> <<>>, time |-> -1]

(* what write_to_ini writes, and what load_from_ini read at the start *)
Saved(cfg, mode) == [config |-> cfg, mode |-> mode]

(***************************************************************************)
(* SystemHealth                                                            *)
(***************************************************************************)
NewSystemHealth ==
    [failed_attempts |-> 0, button_press_count |-> 0, last_error |-> "None",
     status |-> "initializing", last_successful_connection |-> FALSE,
     lock |-> NoThread]

NewRecorded == [failures |-> 0, presses |-> 0, last |-> "none"]

(* a threshold that is crossed one failure late *)
StatusAfterFailureLate(n) ==
    IF n > MAX_FAILED_ATTEMPTS THEN "critical" ELSE "degraded"

(* if self.failed_attempts >= Config.MAX_FAILED_ATTEMPTS: ... else: ... *)
StatusAfterFailure(n) ==
    IF n >= MAX_FAILED_ATTEMPTS THEN "critical" ELSE "degraded"

record_success(h) ==
    [h EXCEPT !.last_successful_connection = TRUE,
              !.failed_attempts = 0,
              !.status = "healthy",
              !.last_error = "None"]

record_failure(h) ==
    [h EXCEPT !.failed_attempts = @ + 1,
              !.last_error = "error",
              !.status = StatusAfterFailure(h.failed_attempts + 1)]

record_button_press(h) == [h EXCEPT !.button_press_count = @ + 1]

(* bound: the device may fail a request now *)
CanFail == system_health.failed_attempts < MaxFailures

(***************************************************************************)
(* Call stacks                                                             *)
(***************************************************************************)
Top(t) == stack[t][Len(stack[t])]

At(t, fn, pc) ==
    /\ stack[t] # <<>>
    /\ Top(t).fn = fn
    /\ Top(t).pc = pc

Depth(t, fn) == \E i \in 1..Len(stack[t]) : stack[t][i].fn = fn

(* stop_event.is_set(): main has reached stop_event.set() in its finally *)
stop_event ==
    \E t \in Threads :
        /\ Len(stack[t]) >= 1
        /\ stack[t][1].fn = "main"
        /\ stack[t][1].pc \in {"join_connect", "join_hardware", "cleanup",
                               "close", "done"}

(* the running frame moves to pc *)
Goto(t, pc) == [stack EXCEPT ![t] = [@ EXCEPT ![Len(@)].pc = pc]]

(* the running frame is replaced *)
Become(t, frame) == [stack EXCEPT ![t] = [@ EXCEPT ![Len(@)] = frame]]

(* the running frame calls: it resumes at pc when the callee returns *)
Call(t, pc, frame) ==
    [stack EXCEPT ![t] = Append([@ EXCEPT ![Len(@)].pc = pc], frame)]

(* the running frame returns *)
Pop(t) == [stack EXCEPT ![t] = SubSeq(@, 1, Len(@) - 1)]

Returns(t, value) ==
    /\ stack' = Pop(t)
    /\ ret' = [ret EXCEPT ![t] = value]

SendFrame(state) ==
    [fn |-> "_send_state", pc |-> "post", state |-> state, attempt |-> 0]

SetColorFrame(r, g, b, brightness) ==
    [fn |-> "set_color", pc |-> "guard", state |-> ColorState(r, g, b, brightness)]

SetWhiteFrame == SetColorFrame(255, 255, 255, FLASH_BRIGHTNESS)

ApplyEffectFrame(effect_index) ==
    [fn |-> "apply_effect", pc |-> "post", effect_index |-> effect_index]

RestoreFrame == [fn |-> "restore_last_state", pc |-> "acquire"]

AutoRecoverFrame == [fn |-> "auto_recover", pc |-> "check"]

WaitFrame == [fn |-> "wait_for_connection", pc |-> "loop", attempt |-> 1]

InitializeFrame == [fn |-> "initialize", pc |-> "get_info"]

(***************************************************************************)
(* History: what the last _send_state call of a thread did.                *)
(***************************************************************************)
(* posts, last, result: the POSTs of the thread's last _send_state call, the  *)
(* outcome of the last one and what the call returned.                       *)
(* recover: the thread's last auto_recover call: is_connected on entry, the  *)
(* requests it made, what wait_for_connection and restore_last_state         *)
(* returned to it, and what it returned.                                     *)
(* restores: the restore_last_state calls the thread made since a push was   *)
(* last acknowledged, the last two of them.                                  *)
NoRecover ==
    [entry |-> "none", requests |-> 0, waited |-> "none", restored |-> "none",
     result |-> "none"]

(* sequence: the blink sequence the thread ran last: the function, the     *)
(* calls of revert_to_user_default it made, and whether it has returned.     *)
(* unacked: a request of the thread failed, or set_color refused a push.     *)
(* effect: how the POST of the thread's last apply_effect call was answered. *)
(* after_stop: None where the calls of stop_flashing are not followed;      *)
(* else 0 until another thread calls stop_flashing while the loop of the     *)
(* sequence runs, then 1, and 2 once the loop has gone on to a push since;   *)
(* 0 again when the loop is left.                                            *)
(* press_start_time = None *)
None == -1

NoSequence ==
    [fn |-> "none", reverts |-> 0, finished |-> FALSE, after_stop |-> None]

NoObs ==
    [posts |-> 0, last |-> "none", result |-> "none", recover |-> NoRecover,
     restores |-> <<>>, sequence |-> NoSequence, unacked |-> FALSE,
     effect |-> "none"]

Str(b) == IF b THEN "true" ELSE "false"

(* a request of thread t counts for the auto_recover call it is made in *)
Requested(o, t) ==
    IF Depth(t, "auto_recover")
    THEN [o EXCEPT ![t].recover.requests = @ + 1]
    ELSE o

InRestore(t) ==
    /\ Len(stack[t]) >= 2
    /\ stack[t][Len(stack[t]) - 1].fn = "restore_last_state"

(* the POST of a _send_state call of thread t was answered *)
Posted(t, outcome) ==
    LET o == Requested([obs EXCEPT ![t].posts = @ + 1, ![t].last = outcome,
                                    ![t].unacked = @ \/ outcome # "ok"], t)
    IN  IF InRestore(t) /\ outcome = "ok"
        THEN [o EXCEPT ![t].restores[Len(o[t].restores)].acked = TRUE]
        ELSE o

(* _send_state of thread t returned value *)
SendReturned(o, t, value) ==
    LET o1 == [o EXCEPT ![t].result = Str(value)]
    IN  IF InRestore(t)
        THEN [o1 EXCEPT ![t].restores[Len(o[t].restores)].result = Str(value)]
        ELSE o1

(* a push was acknowledged: later restores are a new series *)
Pushed(o) ==
    [u \in Threads |->
        [o[u] EXCEPT !.restores =
            IF \E i \in 1..Len(stack[u]) :
                  /\ stack[u][i].fn = "restore_last_state"
                  /\ stack[u][i].pc = "held"
            THEN <<@[Len(@)]>>
            ELSE <<>>]]

StartSend(o, t) ==
    [o EXCEPT ![t].posts = 0, ![t].last = "none", ![t].result = "running"]

(***************************************************************************)
(* WLEDController.set_color                                                *)
(***************************************************************************)
SetColorGuard(t) ==
    /\ At(t, "set_color", "guard")
    /\ IF ~is_connected \/ led_count = 0
       THEN /\ Returns(t, FALSE)
            /\ obs' = [obs EXCEPT ![t].unacked = TRUE]
       ELSE /\ stack' = Become(t, SendFrame(Top(t).state))
            /\ obs' = StartSend([obs EXCEPT ![t].restores = <<>>], t)
            /\ ret' = ret
    /\ UNCHANGED <<is_connected, led_count, last_state, state_lock, flashing,
                   system_health, DEFAULT_MODE, devState, env>>

(***************************************************************************)
(* WLEDController._send_state                                              *)
(***************************************************************************)
(* an off-by-one of the retry loop: range(Config.MAX_RETRIES + 1) *)
OneMoreAttempt(attempt) == attempt < MAX_RETRIES

(* for attempt in range(Config.MAX_RETRIES): another attempt follows *)
MoreAttempts(attempt) == attempt + 1 < MAX_RETRIES

(* every attempt failed: the sleep between attempts, or return False *)
SendFailed(t, outcome) ==
    IF MoreAttempts(Top(t).attempt)
    THEN /\ stack' = [stack EXCEPT ![t] = [@ EXCEPT ![Len(@)].attempt = @ + 1]]
         /\ ret' = ret
         /\ obs' = Posted(t, outcome)
    ELSE /\ Returns(t, FALSE)
         /\ obs' = SendReturned(Posted(t, outcome), t, FALSE)

(* the POST is answered 200 *)
SendPostOk(t) ==
    /\ At(t, "_send_state", "post")
    /\ devState' = Top(t).state
    /\ stack' = Goto(t, "lock")
    /\ obs' = Posted(t, "ok")
    /\ UNCHANGED <<is_connected, led_count, last_state, state_lock, flashing,
                   system_health, DEFAULT_MODE, env, ret>>

(* a failure branch that records the state it could not push *)
SendPostHttpRecordsState(t) ==
    /\ At(t, "_send_state", "post")
    /\ CanFail
    /\ system_health' = record_failure(system_health)
    /\ last_state' = Top(t).state
    /\ SendFailed(t, "http")
    /\ UNCHANGED <<is_connected, led_count, state_lock, flashing,
                   DEFAULT_MODE, devState, env>>

(* the POST is answered with another status *)
SendPostHttp(t) ==
    /\ At(t, "_send_state", "post")
    /\ CanFail
    /\ system_health' = record_failure(system_health)
    /\ SendFailed(t, "http")
    /\ UNCHANGED <<is_connected, led_count, last_state, state_lock, flashing,
                   DEFAULT_MODE, devState, env>>

(* an except branch that forgets self.is_connected = False *)
SendPostNetStaysConnected(t) ==
    /\ At(t, "_send_state", "post")
    /\ CanFail
    /\ system_health' = record_failure(system_health)
    /\ SendFailed(t, "net")
    /\ UNCHANGED <<is_connected, led_count, last_state, state_lock, flashing,
                   DEFAULT_MODE, devState, env>>

(* the POST raises a RequestException *)
SendPostNet(t) ==
    /\ At(t, "_send_state", "post")
    /\ CanFail
    /\ system_health' = record_failure(system_health)
    /\ is_connected' = FALSE
    /\ SendFailed(t, "net")
    /\ UNCHANGED <<led_count, last_state, state_lock, flashing,
                   DEFAULT_MODE, devState, env>>

(* with self._state_lock: self._last_state = state; record_success; return True *)
SendRecord(t) ==
    /\ At(t, "_send_state", "lock")
    /\ state_lock = NoThread
    /\ last_state' = Top(t).state
    /\ system_health' = record_success(system_health)
    /\ Returns(t, TRUE)
    /\ obs' = Pushed(SendReturned(obs, t, TRUE))
    /\ UNCHANGED <<is_connected, led_count, state_lock, flashing,
                   DEFAULT_MODE, devState, env>>

(***************************************************************************)
(* WLEDController.apply_effect                                             *)
(***************************************************************************)
ApplyEffectOk(t) ==
    /\ At(t, "apply_effect", "post")
    /\ devState' = EffectState(Top(t).effect_index)
    /\ system_health' = record_success(system_health)
    /\ Returns(t, TRUE)
    /\ obs' = Pushed(Requested([obs EXCEPT ![t].effect = "ok"], t))
    /\ UNCHANGED <<is_connected, led_count, last_state, state_lock, flashing,
                   DEFAULT_MODE, env>>

(* a status branch that also clears the flag *)
ApplyEffectHttpDisconnects(t) ==
    /\ At(t, "apply_effect", "post")
    /\ CanFail
    /\ system_health' = record_failure(system_health)
    /\ is_connected' = FALSE
    /\ Returns(t, FALSE)
    /\ obs' = Requested([obs EXCEPT ![t].restores = <<>>,
                                    ![t].unacked = TRUE,
                                    ![t].effect = "http"], t)
    /\ UNCHANGED <<led_count, last_state, state_lock, flashing,
                   DEFAULT_MODE, devState, env>>

ApplyEffectHttp(t) ==
    /\ At(t, "apply_effect", "post")
    /\ CanFail
    /\ system_health' = record_failure(system_health)
    /\ Returns(t, FALSE)
    /\ obs' = Requested([obs EXCEPT ![t].restores = <<>>,
                                    ![t].unacked = TRUE,
                                    ![t].effect = "http"], t)
    /\ UNCHANGED <<is_connected, led_count, last_state, state_lock, flashing,
                   DEFAULT_MODE, devState, env>>

ApplyEffectNet(t) ==
    /\ At(t, "apply_effect", "post")
    /\ CanFail
    /\ system_health' = record_failure(system_health)
    /\ is_connected' = FALSE
    /\ Returns(t, FALSE)
    /\ obs' = Requested([obs EXCEPT ![t].restores = <<>>,
                                    ![t].unacked = TRUE,
                                    ![t].effect = "net"], t)
    /\ UNCHANGED <<led_count, last_state, state_lock, flashing,
                   DEFAULT_MODE, devState, env>>

(***************************************************************************)
(* WLEDController.restore_last_state                                       *)
(***************************************************************************)
RestoreCall(payload) == [sent |-> payload, acked |-> FALSE, result |-> "running"]

LastOne(calls) == IF calls = <<>> THEN <<>> ELSE <<calls[Len(calls)]>>

(* with self._state_lock: if self._last_state: return self._send_state(..) *)
RestoreAcquire(t) ==
    /\ At(t, "restore_last_state", "acquire")
    /\ state_lock = NoThread
    /\ IF last_state # NoState
       THEN /\ state_lock' = t
            /\ stack' = Call(t, "held", SendFrame(last_state))
            /\ obs' = StartSend([obs EXCEPT ![t].restores =
                                    Append(LastOne(@), RestoreCall(last_state))], t)
            /\ ret' = ret
       ELSE /\ state_lock' = NoThread
            /\ Returns(t, FALSE)
            /\ obs' = [obs EXCEPT ![t].restores =
                           Append(LastOne(@), [RestoreCall(NoState)
                                               EXCEPT !.result = "false"])]
    /\ UNCHANGED <<is_connected, led_count, last_state, flashing,
                   system_health, DEFAULT_MODE, devState, env>>

(* _send_state returned: the with block releases the lock *)
RestoreRelease(t) ==
    /\ At(t, "restore_last_state", "held")
    /\ state_lock' = NoThread
    /\ Returns(t, ret[t])
    /\ UNCHANGED <<is_connected, led_count, last_state, flashing,
                   system_health, DEFAULT_MODE, devState, env, obs>>

(***************************************************************************)
(* WLEDController.initialize and get_info                                  *)
(***************************************************************************)
InitializeGetOk(t) ==
    /\ At(t, "initialize", "get_info")
    /\ system_health' = record_success(system_health)
    /\ stack' = Goto(t, "connected")
    /\ obs' = Requested(obs, t)
    /\ UNCHANGED <<is_connected, led_count, last_state, state_lock, flashing,
                   DEFAULT_MODE, devState, env, ret>>

(* non-200 status, RequestException or invalid JSON *)
InitializeGetFail(t) ==
    /\ At(t, "initialize", "get_info")
    /\ CanFail
    /\ stack[t][Len(stack[t]) - 1].attempt < MaxAttempt
    /\ system_health' = record_failure(system_health)
    /\ stack' = Goto(t, "failed")
    /\ obs' = Requested([obs EXCEPT ![t].unacked = TRUE], t)
    /\ UNCHANGED <<is_connected, led_count, last_state, state_lock, flashing,
                   DEFAULT_MODE, devState, env, ret>>

InitializeConnected(t) ==
    /\ At(t, "initialize", "connected")
    /\ led_count' = LedCount
    /\ is_connected' = TRUE
    /\ system_health' = record_success(system_health)
    /\ Returns(t, TRUE)
    /\ UNCHANGED <<last_state, state_lock, flashing, DEFAULT_MODE, devState,
                   env, obs>>

InitializeFailed(t) ==
    /\ At(t, "initialize", "failed")
    /\ is_connected' = FALSE
    /\ Returns(t, FALSE)
    /\ UNCHANGED <<led_count, last_state, state_lock, flashing, system_health,
                   DEFAULT_MODE, devState, env, obs>>

(***************************************************************************)
(* WLEDController.wait_for_connection                                      *)
(***************************************************************************)
WaitLoop(t) ==
    /\ At(t, "wait_for_connection", "loop")
    /\ IF is_connected
       THEN Returns(t, TRUE)
       ELSE /\ stack' = Call(t, "after_initialize", InitializeFrame)
            /\ ret' = ret
    /\ UNCHANGED <<is_connected, led_count, last_state, state_lock, flashing,
                   system_health, DEFAULT_MODE, devState, env, obs>>

(* if self.initialize(): return True; else sleep, attempt += 1 *)
WaitAfterInitialize(t) ==
    /\ At(t, "wait_for_connection", "after_initialize")
    /\ IF ret[t]
       THEN Returns(t, TRUE)
       ELSE /\ stack' = [stack EXCEPT ![t] =
                            [@ EXCEPT ![Len(@)].attempt = @ + 1,
                                      ![Len(@)].pc = "loop"]]
            /\ ret' = ret
    /\ UNCHANGED <<is_connected, led_count, last_state, state_lock, flashing,
                   system_health, DEFAULT_MODE, devState, env, obs>>

(***************************************************************************)
(* WLEDController.auto_recover                                             *)
(***************************************************************************)
Entry == IF is_connected THEN "connected" ELSE "disconnected"

(* an auto_recover that does not look at self.is_connected *)
RecoversAlways == TRUE

(* if not self.is_connected: there is something to recover *)
NeedsRecovery == ~is_connected

AutoRecoverCheck(t) ==
    /\ At(t, "auto_recover", "check")
    /\ IF NeedsRecovery
       THEN /\ stack' = Call(t, "after_wait", WaitFrame)
            /\ ret' = ret
            /\ obs' = [obs EXCEPT ![t].recover =
                           [NoRecover EXCEPT !.entry = Entry]]
       ELSE /\ Returns(t, FALSE)
            /\ obs' = [obs EXCEPT ![t].recover =
                           [NoRecover EXCEPT !.entry = Entry, !.result = "false"]]
    /\ UNCHANGED <<is_connected, led_count, last_state, state_lock, flashing,
                   system_health, DEFAULT_MODE, devState, env>>

AutoRecoverAfterWait(t) ==
    /\ At(t, "auto_recover", "after_wait")
    /\ IF ret[t]
       THEN /\ stack' = Call(t, "after_restore", RestoreFrame)
            /\ ret' = ret
            /\ obs' = [obs EXCEPT ![t].recover.waited = "true",
                                  ![t].recover.restored = "called"]
       ELSE /\ Returns(t, FALSE)
            /\ obs' = [obs EXCEPT ![t].recover.waited = "false",
                                  ![t].recover.result = "false"]
    /\ UNCHANGED <<is_connected, led_count, last_state, state_lock, flashing,
                   system_health, DEFAULT_MODE, devState, env>>

AutoRecoverAfterRestore(t) ==
    /\ At(t, "auto_recover", "after_restore")
    /\ Returns(t, ret[t])
    /\ obs' = [obs EXCEPT ![t].recover.restored = Str(ret[t]),
                          ![t].recover.result = Str(ret[t])]
    /\ UNCHANGED <<is_connected, led_count, last_state, state_lock, flashing,
                   system_health, DEFAULT_MODE, devState, env>>

(***************************************************************************)
(* One step of the device client, in whichever thread runs it.             *)
(***************************************************************************)
ClientStep(t) ==
    \/ SetColorGuard(t)
    \/ SendPostOk(t)
    \/ SendPostHttp(t)
    \/ SendPostNet(t)
    \/ SendRecord(t)
    \/ ApplyEffectOk(t)
    \/ ApplyEffectHttp(t)
    \/ ApplyEffectNet(t)
    \/ RestoreAcquire(t)
    \/ RestoreRelease(t)
    \/ InitializeGetOk(t)
    \/ InitializeGetFail(t)
    \/ InitializeConnected(t)
    \/ InitializeFailed(t)
    \/ WaitLoop(t)
    \/ WaitAfterInitialize(t)
    \/ AutoRecoverCheck(t)
    \/ AutoRecoverAfterWait(t)
    \/ AutoRecoverAfterRestore(t)

(***************************************************************************)
(* The operations of WLEDController, called by request threads in any      *)
(* order and with any argument.                                            *)
(***************************************************************************)
Operations ==
    {SetColorFrame(255, 0, 0, FLASH_BRIGHTNESS), SetWhiteFrame, ApplyEffectFrame(DEFAULT_EFFECT_INDEX), RestoreFrame,
     AutoRecoverFrame, WaitFrame}

CallOperation(t) ==
    /\ role[t] = "client"
    /\ stack[t] = <<>>
    /\ \E frame \in Operations :
         /\ stack' = [stack EXCEPT ![t] = <<frame>>]
         /\ obs' = [obs EXCEPT ![t] =
                        IF frame = RestoreFrame
                        THEN [NoObs EXCEPT !.restores = obs[t].restores]
                        ELSE NoObs]
    /\ ret' = [ret EXCEPT ![t] = FALSE]
    /\ UNCHANGED <<is_connected, led_count, last_state, state_lock, flashing,
                   system_health, DEFAULT_MODE, devState, env>>

InitController ==
    /\ is_connected = FALSE
    /\ led_count = 0
    /\ last_state = NoState
    /\ state_lock = NoThread
    /\ flashing = FALSE
    /\ system_health = NewSystemHealth
    /\ devState = NoState
    /\ line = 1
    /\ newest = NoThread
    /\ ret = [t \in Threads |-> FALSE]
    /\ obs = [t \in Threads |-> NoObs]
    /\ recorded = NewRecorded
    /\ now = 0
    /\ requests_per_ip = NoRequests
    /\ effects_cache = NoCache

InitClient ==
    /\ InitController
    /\ config = DefaultConfig
    /\ reachable = "up"
    /\ DEFAULT_MODE = "white"
    /\ role = [t \in Threads |-> IF t \in {"w1", "w2"} THEN "client" ELSE "off"]
    /\ stack = [t \in Threads |-> <<>>]
    /\ ini = Saved(config, DEFAULT_MODE)

NextClient == \E t \in Threads : CallOperation(t) \/ ClientStep(t)

SpecClient == InitClient /\ [][NextClient]_vars

(***************************************************************************)
(* Time.  A frame keeps, for every time.time() value it compares with      *)
(* later, the ticks that have passed since it was taken; a timer stops     *)
(* counting at the value it is compared with.  Threads run at any speed,   *)
(* so a tick may pass between any two steps.                               *)
(***************************************************************************)
(* Config.LONG_PRESS_THRESHOLD, Config.SHORT_FLASH_DURATION and the         *)
(* interval = Config.FLASH_INTERVAL / 2 of the loops, configured to a few  *)
(* ticks each                                                              *)
LONG_PRESS_THRESHOLD == 2
SHORT_FLASH_DURATION == 3
HalfInterval == 1

Min(a, b) == IF a < b THEN a ELSE b

Age(frame) ==
    CASE frame.fn = "simulate_long_press" ->
            [frame EXCEPT !.hold = Min(@ + 1, LONG_PRESS_THRESHOLD),
                          !.blink_age = Min(@ + 1, HalfInterval)]
      [] frame.fn = "blink_green_for_30s" ->
            [frame EXCEPT !.elapsed = Min(@ + 1, SHORT_FLASH_DURATION),
                          !.slept = Min(@ + 1, HalfInterval),
                          !.pressed_for = IF @ = None THEN None
                                          ELSE Min(@ + 1, LONG_PRESS_THRESHOLD)]
      [] frame.fn = "blink_red_alert" ->
            [frame EXCEPT !.elapsed = Min(@ + 1, SHORT_FLASH_DURATION),
                          !.slept = Min(@ + 1, HalfInterval)]
      [] frame.fn = "hardware_button_loop" ->
            [frame EXCEPT !.held = IF frame.pressed
                                   THEN Min(@ + 1, LONG_PRESS_THRESHOLD) ELSE @,
                          !.blink_age = IF frame.blinking_red
                                        THEN Min(@ + 1, HalfInterval) ELSE @,
                          !.asserted = IF @ = None \/ line = 1 THEN @
                                       ELSE Min(@ + 1, LONG_PRESS_THRESHOLD)]
      [] OTHER -> frame

Tick ==
    /\ stack' = [t \in Threads |->
                    [i \in 1..Len(stack[t]) |-> Age(stack[t][i])]]
    /\ stack' # stack
    /\ UNCHANGED <<is_connected, led_count, last_state, state_lock, flashing,
                   system_health, DEFAULT_MODE, devState, env, ret, obs>>

(* the button is pressed or released *)
ButtonChange ==
    /\ line' = 1 - line
    /\ UNCHANGED <<is_connected, led_count, last_state, state_lock, flashing,
                   system_health, DEFAULT_MODE, devState, role, config, recorded, reachable, ini, now,
                   requests_per_ip, effects_cache, newest, stack,
                   ret, obs>>

(***************************************************************************)
(* revert_to_user_default                                                  *)
(***************************************************************************)
RevertFrame ==
    IF DEFAULT_MODE = "white"
    THEN SetWhiteFrame
    ELSE ApplyEffectFrame(DEFAULT_EFFECT_INDEX)

(* a blink sequence of thread t calls revert_to_user_default *)
Reverting(t) ==
    [obs EXCEPT ![t].sequence.reverts = @ + 1,
                ![t].sequence.after_stop = IF @ = None THEN None ELSE 0]

(* thread u is inside the loop of a blink sequence *)
Blinking(u) ==
    /\ stack[u] # <<>>
    /\ stack[u][1].fn \in
          {"blink_green_for_30s", "blink_red_alert", "simulate_long_press"}
    /\ stack[u][1].pc \in
          {"loop", "red_loop", "after_set", "after_recover", "sleep"}

(* thread t calls stop_flashing: the loops of the other threads are cancelled *)
Stopped(o, t) ==
    [u \in Threads |->
        IF u # t /\ Blinking(u) /\ o[u].sequence.after_stop = 0
        THEN [o[u] EXCEPT !.sequence.after_stop = 1]
        ELSE o[u]]

(* the loop of thread t passes its check of the flag and goes on to a push *)
Passed(t) ==
    [obs EXCEPT ![t].sequence.after_stop = IF @ = 1 THEN 2 ELSE @]

(* a sequence starts with an empty history *)
Started(t, fn) ==
    [obs EXCEPT ![t] = [NoObs EXCEPT
        !.sequence.fn = fn,
        !.sequence.after_stop =
            IF obs[t].sequence.after_stop = None THEN None ELSE 0]]

(* of a sequence that has returned, the history keeps what the sequence did *)
Finished(t) ==
    [obs EXCEPT ![t] = [NoObs EXCEPT
        !.sequence = [obs[t].sequence EXCEPT
                         !.finished = TRUE,
                         !.after_stop = IF @ = None THEN None ELSE 0],
        !.unacked = obs[t].unacked]]

(* the frame of the blink loop that called set_color notes the result *)
Toggled(frame, field, pushed) ==
    [frame EXCEPT ![field] = ~@, !.pushed = @ \/ pushed]

(***************************************************************************)
(* simulate_long_press                                                     *)
(***************************************************************************)
SimulateLongFrame ==
    [fn |-> "simulate_long_press", pc |-> "entry", hold |-> 0,
     blink_age |-> 0, blink_state |-> FALSE, pushed |-> FALSE]

(* record_button_press(); wled.stop_flashing() *)
SimulateLongEntry(t) ==
    /\ At(t, "simulate_long_press", "entry")
    /\ system_health' = record_button_press(system_health)
    /\ flashing' = FALSE
    /\ stack' = Goto(t, "start")
    /\ obs' = Stopped(Started(t, "simulate_long_press"), t)
    /\ UNCHANGED <<is_connected, led_count, last_state, state_lock,
                   DEFAULT_MODE, devState, env, ret>>

(* hold_start = time.time(); wled.flashing = True *)
SimulateLongStart(t) ==
    /\ At(t, "simulate_long_press", "start")
    /\ flashing' = TRUE
    /\ newest' = t
    /\ stack' = Become(t, [Top(t) EXCEPT !.pc = "loop", !.hold = 0,
                                         !.blink_age = 0])
    /\ UNCHANGED <<is_connected, led_count, last_state, state_lock,
                   system_health, DEFAULT_MODE, devState, role, config, recorded, reachable, ini, now,
                   requests_per_ip, effects_cache, line, ret, obs>>

(* while blinking_red and wled.flashing: one pass up to the next call *)
SimulateLongLoop(t) ==
    /\ At(t, "simulate_long_press", "loop")
    /\ IF ~flashing
       THEN /\ stack' = Goto(t, "finally")
            /\ obs' = obs
       ELSE IF Top(t).hold >= LONG_PRESS_THRESHOLD
       THEN /\ stack' = Call(t, "finally", RevertFrame)
            /\ obs' = Reverting(t)
       ELSE IF Top(t).blink_age >= HalfInterval
       THEN /\ stack' = [stack EXCEPT ![t] =
                    Append([@ EXCEPT ![Len(@)].pc = "after_set",
                                     ![Len(@)].blink_age = 0],
                           IF Top(t).blink_state
                           THEN SetColorFrame(0, 0, 0, 0)
                           ELSE SetColorFrame(255, 0, 0, FLASH_BRIGHTNESS))]
            /\ obs' = Passed(t)
       ELSE /\ stack' = stack
            /\ obs' = obs
    /\ UNCHANGED <<is_connected, led_count, last_state, state_lock, flashing,
                   system_health, DEFAULT_MODE, devState, env, ret>>

(* if not wled.set_color(..): wled.auto_recover() *)
SimulateLongAfterSet(t) ==
    /\ At(t, "simulate_long_press", "after_set")
    /\ IF ret[t]
       THEN stack' = Become(t, [Toggled(Top(t), "blink_state", TRUE)
                                   EXCEPT !.pc = "loop"])
       ELSE stack' = Call(t, "after_recover", AutoRecoverFrame)
    /\ UNCHANGED <<is_connected, led_count, last_state, state_lock, flashing,
                   system_health, DEFAULT_MODE, devState, env, ret, obs>>

SimulateLongAfterRecover(t) ==
    /\ At(t, "simulate_long_press", "after_recover")
    /\ stack' = Become(t, [Toggled(Top(t), "blink_state", FALSE)
                              EXCEPT !.pc = "loop"])
    /\ UNCHANGED <<is_connected, led_count, last_state, state_lock, flashing,
                   system_health, DEFAULT_MODE, devState, env, ret, obs>>

(* finally: wled.flashing = False *)
SimulateLongFinally(t) ==
    /\ At(t, "simulate_long_press", "finally")
    /\ flashing' = FALSE
    /\ stack' = Pop(t)
    /\ obs' = Finished(t)
    /\ UNCHANGED <<is_connected, led_count, last_state, state_lock,
                   system_health, DEFAULT_MODE, devState, env, ret>>

(***************************************************************************)
(* blink_red_alert                                                         *)
(***************************************************************************)
BlinkRedFrame ==
    [fn |-> "blink_red_alert", pc |-> "entry", elapsed |-> 0, slept |-> 0,
     flash_state |-> TRUE, pushed |-> FALSE]

BlinkRedEntry(t) ==
    /\ At(t, "blink_red_alert", "entry")
    /\ flashing' = TRUE
    /\ newest' = t
    /\ stack' = Become(t, [Top(t) EXCEPT !.pc = "loop", !.elapsed = 0])
    /\ obs' = Started(t, "blink_red_alert")
    /\ UNCHANGED <<is_connected, led_count, last_state, state_lock,
                   system_health, DEFAULT_MODE, devState, role, config, recorded, reachable, ini, now,
                   requests_per_ip, effects_cache, line, ret>>

BlinkRedLoop(t) ==
    /\ At(t, "blink_red_alert", "loop")
    /\ IF Top(t).elapsed < SHORT_FLASH_DURATION /\ flashing
       THEN /\ stack' = Call(t, "after_set",
                             IF Top(t).flash_state
                             THEN SetColorFrame(255, 0, 0, FLASH_BRIGHTNESS)
                             ELSE SetColorFrame(0, 0, 0, 0))
            /\ obs' = Passed(t)
       ELSE /\ stack' = Call(t, "finally", RevertFrame)
            /\ obs' = Reverting(t)
    /\ UNCHANGED <<is_connected, led_count, last_state, state_lock, flashing,
                   system_health, DEFAULT_MODE, devState, env, ret>>

BlinkRedAfterSet(t) ==
    /\ At(t, "blink_red_alert", "after_set")
    /\ IF ret[t]
       THEN stack' = Become(t, [Toggled(Top(t), "flash_state", TRUE)
                                   EXCEPT !.pc = "sleep", !.slept = 0])
       ELSE stack' = Call(t, "after_recover", AutoRecoverFrame)
    /\ UNCHANGED <<is_connected, led_count, last_state, state_lock, flashing,
                   system_health, DEFAULT_MODE, devState, env, ret, obs>>

BlinkRedAfterRecover(t) ==
    /\ At(t, "blink_red_alert", "after_recover")
    /\ stack' = Become(t, [Toggled(Top(t), "flash_state", FALSE)
                              EXCEPT !.pc = "sleep", !.slept = 0])
    /\ UNCHANGED <<is_connected, led_count, last_state, state_lock, flashing,
                   system_health, DEFAULT_MODE, devState, env, ret, obs>>

(* time.sleep(interval) *)
BlinkRedSleep(t) ==
    /\ At(t, "blink_red_alert", "sleep")
    /\ Top(t).slept >= HalfInterval
    /\ stack' = Goto(t, "loop")
    /\ UNCHANGED <<is_connected, led_count, last_state, state_lock, flashing,
                   system_health, DEFAULT_MODE, devState, env, ret, obs>>

BlinkRedFinally(t) ==
    /\ At(t, "blink_red_alert", "finally")
    /\ flashing' = FALSE
    /\ stack' = Pop(t)
    /\ obs' = Finished(t)
    /\ UNCHANGED <<is_connected, led_count, last_state, state_lock,
                   system_health, DEFAULT_MODE, devState, env, ret>>

(***************************************************************************)
(* blink_green_for_30s                                                     *)
(***************************************************************************)
BlinkGreenFrame ==
    [fn |-> "blink_green_for_30s", pc |-> "entry", elapsed |-> 0, slept |-> 0,
     flash_state |-> TRUE, pressed_for |-> None,
     long_press_initiated |-> FALSE, red |-> FALSE, pushed |-> FALSE]

(* record_button_press(); start_time = time.time(); wled.flashing = True *)
BlinkGreenEntry(t) ==
    /\ At(t, "blink_green_for_30s", "entry")
    /\ system_health' = record_button_press(system_health)
    /\ flashing' = TRUE
    /\ newest' = t
    /\ stack' = Become(t, [Top(t) EXCEPT !.pc = "loop", !.elapsed = 0])
    /\ obs' = Started(t, "blink_green_for_30s")
    /\ UNCHANGED <<is_connected, led_count, last_state, state_lock,
                   DEFAULT_MODE, devState, role, config, recorded, reachable, ini, now,
                   requests_per_ip, effects_cache, line, ret>>

(* the blue or off push of one pass of the outer loop *)
BlueFrame(frame) ==
    IF frame.flash_state
    THEN SetColorFrame(0, 0, 255, FLASH_BRIGHTNESS)
    ELSE SetColorFrame(0, 0, 0, 0)

(* while (time.time() - start_time < SHORT_FLASH_DURATION) and wled.flashing *)
BlinkGreenLoop(t) ==
    /\ At(t, "blink_green_for_30s", "loop")
    /\ IF ~(Top(t).elapsed < SHORT_FLASH_DURATION /\ flashing)
       THEN /\ stack' = Call(t, "after_revert", RevertFrame)
            /\ obs' = Reverting(t)
       ELSE /\ obs' = IF /\ line = 0
                            /\ Top(t).pressed_for # None
                            /\ Top(t).pressed_for >= LONG_PRESS_THRESHOLD
                         THEN obs
                         ELSE Passed(t)
            /\ IF line = 0
               THEN IF Top(t).pressed_for = None
                    THEN stack' = [stack EXCEPT ![t] =
                            Append([@ EXCEPT ![Len(@)].pc = "after_set",
                                             ![Len(@)].pressed_for = 0],
                                   BlueFrame(Top(t)))]
                    ELSE IF Top(t).pressed_for >= LONG_PRESS_THRESHOLD
                    THEN stack' = Become(t,
                            [Top(t) EXCEPT !.pc = "red_loop", !.red = TRUE,
                                           !.long_press_initiated = TRUE])
                    ELSE stack' = Call(t, "after_set", BlueFrame(Top(t)))
               ELSE stack' = [stack EXCEPT ![t] =
                            Append([@ EXCEPT ![Len(@)].pc = "after_set",
                                             ![Len(@)].pressed_for = None],
                                   BlueFrame(Top(t)))]
    /\ UNCHANGED <<is_connected, led_count, last_state, state_lock, flashing,
                   system_health, DEFAULT_MODE, devState, env, ret>>

(* while GPIO.input(Config.BUTTON_PIN) == 0 and wled.flashing *)
BlinkGreenRedLoop(t) ==
    /\ At(t, "blink_green_for_30s", "red_loop")
    /\ IF line = 0 /\ flashing
       THEN /\ stack' = Call(t, "after_set",
                             IF Top(t).flash_state
                             THEN SetColorFrame(255, 0, 0, FLASH_BRIGHTNESS)
                             ELSE SetColorFrame(0, 0, 0, 0))
            /\ obs' = Passed(t)
       ELSE /\ stack' = Call(t, "finally", RevertFrame)
            /\ obs' = Reverting(t)
    /\ UNCHANGED <<is_connected, led_count, last_state, state_lock, flashing,
                   system_health, DEFAULT_MODE, devState, env, ret>>

BlinkGreenAfterSet(t) ==
    /\ At(t, "blink_green_for_30s", "after_set")
    /\ IF ret[t]
       THEN stack' = Become(t, [Toggled(Top(t), "flash_state", TRUE)
                                   EXCEPT !.pc = "sleep", !.slept = 0])
       ELSE stack' = Call(t, "after_recover", AutoRecoverFrame)
    /\ UNCHANGED <<is_connected, led_count, last_state, state_lock, flashing,
                   system_health, DEFAULT_MODE, devState, env, ret, obs>>

BlinkGreenAfterRecover(t) ==
    /\ At(t, "blink_green_for_30s", "after_recover")
    /\ stack' = Become(t, [Toggled(Top(t), "flash_state", FALSE)
                              EXCEPT !.pc = "sleep", !.slept = 0])
    /\ UNCHANGED <<is_connected, led_count, last_state, state_lock, flashing,
                   system_health, DEFAULT_MODE, devState, env, ret, obs>>

(* a sleep that always goes back to the blue loop *)
BlinkGreenSleepInBlue(frame) == "loop"

(* the loop a sleep of the frame is in: the blue one or the red one *)
BlinkGreenSleepIn(frame) == IF frame.red THEN "red_loop" ELSE "loop"

(* time.sleep(interval), then the loop the frame is in *)
BlinkGreenSleep(t) ==
    /\ At(t, "blink_green_for_30s", "sleep")
    /\ Top(t).slept >= HalfInterval
    /\ stack' = Goto(t, BlinkGreenSleepIn(Top(t)))
    /\ UNCHANGED <<is_connected, led_count, last_state, state_lock, flashing,
                   system_health, DEFAULT_MODE, devState, env, ret, obs>>

(* GPIO.input raises: except Exception: revert_to_user_default(wled) *)
BlinkGreenException(t) ==
    /\ \/ At(t, "blink_green_for_30s", "loop")
       \/ At(t, "blink_green_for_30s", "red_loop")
    /\ stack' = Call(t, "finally", RevertFrame)
    /\ obs' = Reverting(t)
    /\ UNCHANGED <<is_connected, led_count, last_state, state_lock, flashing,
                   system_health, DEFAULT_MODE, devState, env, ret>>

(* after the revert of a normal exit: if long_press_initiated: blink_red_alert *)
BlinkGreenAfterRevert(t) ==
    /\ At(t, "blink_green_for_30s", "after_revert")
    /\ IF Top(t).long_press_initiated
       THEN stack' = Call(t, "finally", BlinkRedFrame)
       ELSE stack' = Goto(t, "finally")
    /\ UNCHANGED <<is_connected, led_count, last_state, state_lock, flashing,
                   system_health, DEFAULT_MODE, devState, env, ret, obs>>

BlinkGreenFinally(t) ==
    /\ At(t, "blink_green_for_30s", "finally")
    /\ flashing' = FALSE
    /\ stack' = Pop(t)
    /\ obs' = Finished(t)
    /\ UNCHANGED <<is_connected, led_count, last_state, state_lock,
                   system_health, DEFAULT_MODE, devState, env, ret>>

(***************************************************************************)
(* simulate_short_press                                                    *)
(***************************************************************************)
SimulateShortFrame == [fn |-> "simulate_short_press", pc |-> "stop"]

(* wled.stop_flashing(); blink_green_for_30s(wled) *)
SimulateShortStop(t) ==
    /\ At(t, "simulate_short_press", "stop")
    /\ flashing' = FALSE
    /\ stack' = Become(t, BlinkGreenFrame)
    /\ obs' = Stopped(obs, t)
    /\ UNCHANGED <<is_connected, led_count, last_state, state_lock,
                   system_health, DEFAULT_MODE, devState, env, ret>>

(***************************************************************************)
(* simulate_press: a request thread of the web server handles one POST     *)
(***************************************************************************)
(* bound: the presses handled in a run *)
MaxPresses == 2

SimulatePress(t) ==
    /\ role[t] = "web"
    /\ stack[t] = <<>>
    /\ system_health.button_press_count < MaxPresses
    /\ \E frame \in {SimulateShortFrame, SimulateLongFrame} :
          stack' = [stack EXCEPT ![t] = <<frame>>]
    /\ UNCHANGED <<is_connected, led_count, last_state, state_lock, flashing,
                   system_health, DEFAULT_MODE, devState, env, ret, obs>>

(***************************************************************************)
(* background_connect_wled                                                 *)
(***************************************************************************)
SupervisorFrame == [fn |-> "background_connect_wled", pc |-> "loop"]

(* while not stop_event.is_set():
   if not wled.is_connected: wled.wait_for_connection() *)
SupervisorLoop(t) ==
    /\ At(t, "background_connect_wled", "loop")
    /\ ~stop_event
    /\ IF ~is_connected
       THEN stack' = Call(t, "sleep", WaitFrame)
       ELSE stack' = Goto(t, "sleep")
    /\ UNCHANGED <<is_connected, led_count, last_state, state_lock, flashing,
                   system_health, DEFAULT_MODE, devState, env, ret, obs>>

(* time.sleep(Config.HEALTH_CHECK_INTERVAL) *)
SupervisorSleep(t) ==
    /\ At(t, "background_connect_wled", "sleep")
    /\ stack' = Goto(t, "loop")
    /\ UNCHANGED <<is_connected, led_count, last_state, state_lock, flashing,
                   system_health, DEFAULT_MODE, devState, env, ret, obs>>

SupervisorStep(t) == SupervisorLoop(t) \/ SupervisorSleep(t)

(***************************************************************************)
(* Two request threads of the web server, each handling simulate_press     *)
(* requests, while the device answers every request and nobody touches     *)
(* the button.  The run starts after the construction of the controller in *)
(* main, either before anything has connected or after                     *)
(* background_connect_wled has made its first connection.                  *)
(***************************************************************************)
SimulateStep(t) ==
    \/ SimulatePress(t)
    \/ SimulateShortStop(t)
    \/ SimulateLongEntry(t)
    \/ SimulateLongStart(t)
    \/ SimulateLongLoop(t)
    \/ SimulateLongAfterSet(t)
    \/ SimulateLongAfterRecover(t)
    \/ SimulateLongFinally(t)
    \/ BlinkGreenEntry(t)
    \/ BlinkGreenLoop(t)
    \/ BlinkGreenAfterSet(t)
    \/ BlinkGreenAfterRecover(t)
    \/ BlinkGreenSleep(t)
    \/ BlinkGreenException(t)
    \/ BlinkGreenAfterRevert(t)
    \/ BlinkGreenFinally(t)

(* the client steps of a run in which the device answers every request *)
AnsweredStep(t) ==
    \/ SetColorGuard(t)
    \/ SendPostOk(t)
    \/ SendRecord(t)
    \/ ApplyEffectOk(t)
    \/ RestoreAcquire(t)
    \/ InitializeGetOk(t)
    \/ InitializeConnected(t)
    \/ WaitLoop(t)
    \/ WaitAfterInitialize(t)
    \/ AutoRecoverCheck(t)
    \/ AutoRecoverAfterWait(t)
    \/ AutoRecoverAfterRestore(t)

(* get_info and initialize have succeeded once *)
FirstConnection ==
    /\ is_connected = TRUE
    /\ led_count = LedCount
    /\ system_health = record_success(record_success(NewSystemHealth))

InitWeb ==
    /\ \/ InitController
       \/ /\ FirstConnection
          /\ last_state = NoState
          /\ state_lock = NoThread
          /\ flashing = FALSE
          /\ devState = NoState
          /\ line = 1
          /\ newest = NoThread
          /\ ret = [t \in Threads |-> FALSE]
          /\ obs = [t \in Threads |-> NoObs]
    /\ recorded = NewRecorded
    /\ now = 0
    /\ requests_per_ip = NoRequests
    /\ effects_cache = NoCache
    /\ config = DefaultConfig
    /\ reachable = "up"
    /\ DEFAULT_MODE \in {"white", "effect"}
    /\ role = [t \in Threads |-> IF t \in {"w1", "w2"} THEN "web" ELSE "off"]
    /\ stack = [t \in Threads |-> <<>>]
    /\ ini = Saved(config, DEFAULT_MODE)

NextWeb ==
    \/ \E t \in Threads : AnsweredStep(t) \/ SimulateStep(t)
    \/ Tick

SpecWeb == InitWeb /\ [][NextWeb]_vars

(***************************************************************************)
(* Blink sequences of the request threads.                                 *)
(***************************************************************************)
WebThreads == {"w1", "w2"}

LoopFunctions == {"simulate_long_press", "blink_green_for_30s", "blink_red_alert"}

(* thread t runs a blink sequence that has not left its loop *)
InLoop(t) ==
    /\ stack[t] # <<>>
    /\ stack[t][1].fn \in LoopFunctions
    /\ stack[t][1].pc \in {"loop", "red_loop", "after_set", "after_recover", "sleep"}

(* the device has acknowledged a blink color of the sequence t runs *)
HasPushed(t) ==
    /\ InLoop(t)
    /\ \/ stack[t][1].pushed
       \/ /\ stack[t][1].pc = "after_set"
          /\ Top(t).fn = "_send_state"
          /\ Top(t).pc = "lock"

(* the loop of thread t passes its check of the flag and calls set_color *)
NextPush(t) ==
    /\ InLoop(t)
    /\ Len(stack[t]) = 1
    /\ Len(stack'[t]) = 2
    /\ stack'[t][1].pc = "after_set"

(* C1: at no instant are two blink loops both pushing blink colors: once  *)
(* the sequence started last has pushed its first color, no loop of a      *)
(* sequence started before it makes another push.                          *)
C1_OneLoopPushing ==
    [][\A a \in WebThreads, b \in WebThreads :
          (a # b /\ newest = b /\ HasPushed(b)) => ~NextPush(a)]_vars

(* C2: every blink sequence that has returned has called                   *)
(* revert_to_user_default exactly once.                                    *)
C2_RevertExactlyOnce ==
    \A t \in WebThreads :
        obs[t].sequence.finished => obs[t].sequence.reverts = 1

DefaultAppearance ==
    IF DEFAULT_MODE = "white" THEN WHITE ELSE EffectState(DEFAULT_EFFECT_INDEX)

NoSequenceRunning == \A t \in WebThreads : stack[t] = <<>>

(* C3: whenever no blink sequence is running, a sequence has run, the      *)
(* device is connected and has acknowledged every request of the           *)
(* sequences, at least one, the state it acknowledged last is the default  *)
(* appearance.                                                             *)
C3_IdleShowsDefault ==
    ( /\ NoSequenceRunning
      /\ \E t \in WebThreads : obs[t].sequence.finished
      /\ devState # NoState
      /\ is_connected
      /\ \A t \in WebThreads : ~obs[t].unacked )
    => devState = DefaultAppearance

Clients == {"w1", "w2"}

(* a thread inside an operation keeps running *)
FairSpecClient ==
    SpecClient /\ \A t \in Clients : WF_vars(ClientStep(t))

(***************************************************************************)
(* Properties of the device client                                         *)
(***************************************************************************)

(* C4: a _send_state call whose POSTs all fail makes exactly MAX_RETRIES   *)
(* POST attempts and returns False; a call never makes more attempts, and  *)
(* the first acknowledged attempt is its last.                             *)
C4_ExactlyMaxRetries ==
    \A t \in Threads :
        /\ obs[t].result = "false" => obs[t].posts = MAX_RETRIES
        /\ obs[t].posts <= MAX_RETRIES
        /\ obs[t].result = "true" => obs[t].last = "ok"
        /\ (obs[t].result = "running" /\ obs[t].last = "ok")
              => At(t, "_send_state", "lock")
        /\ (obs[t].result = "running" /\ obs[t].last # "ok")
              => /\ At(t, "_send_state", "post")
                 /\ Top(t).attempt = obs[t].posts

C4_Witness ==
    \E t \in Threads :
        /\ obs[t].result = "false"
        /\ obs[t].posts = MAX_RETRIES
        /\ stack[t] = <<>>

(* C5, as claimed: whenever _send_state returns False, is_connected is     *)
(* False on return, after network errors and after HTTP statuses alike.    *)
C5_DisconnectedOnFalse ==
    [][\A t \in Threads :
          (obs[t].result = "running" /\ obs'[t].result = "false")
              => ~is_connected']_vars

(* C5, amended: every failed attempt of _send_state records a failure in   *)
(* the health tracker; an attempt that fails with a network error sets     *)
(* is_connected to False, an attempt that fails with an HTTP status leaves *)
(* is_connected as it is.                                                  *)
C5_FailedAttempts ==
    [][\A t \in Threads :
          (obs[t].result = "running" /\ obs'[t].posts = obs[t].posts + 1
             /\ obs'[t].last \in {"http", "net"})
              => /\ system_health'.failed_attempts
                        = system_health.failed_attempts + 1
                 /\ system_health'.status \in {"degraded", "critical"}
                 /\ system_health'.last_error # "None"
                 /\ obs'[t].last = "net" => ~is_connected'
                 /\ obs'[t].last = "http" => is_connected' = is_connected]_vars

C5_Witness ==
    \E t \in Threads :
        /\ obs[t].result = "false"
        /\ obs[t].last = "http"
        /\ is_connected
        /\ system_health.failed_attempts >= MAX_RETRIES

(* C6: _last_state changes only in the step of a _send_state call whose    *)
(* POST was answered 200, and becomes the payload of that call; once it is *)
(* set, no step clears it.                                                 *)
C6_LastStateOnlyOnAck ==
    [][/\ last_state' # last_state
          => \E t \in Threads :
                /\ At(t, "_send_state", "lock")
                /\ obs[t].last = "ok"
                /\ stack'[t] # stack[t]
                /\ last_state' = Top(t).state
       /\ last_state # NoState => last_state' # NoState]_vars

C6_Witness ==
    /\ last_state = RED
    /\ devState = RED
    /\ \E t \in Threads : obs[t].result = "false" /\ obs[t].posts = MAX_RETRIES

(* the _send_state call that restore_last_state made for thread t was      *)
(* acknowledged and waits for _state_lock, which thread t itself holds     *)
RestoreBlocked(t) ==
    /\ InRestore(t)
    /\ At(t, "_send_state", "lock")
    /\ state_lock = t

(* C7: restore_last_state with a recorded state sends that payload through *)
(* _send_state and returns its result, True when the device acknowledges   *)
(* it; with no recorded state it sends nothing and returns False.          *)
C7_RestoreResendsAndReturns ==
    \A t \in Threads :
        /\ InRestore(t) /\ Top(t).fn = "_send_state"
              => Top(t).state = last_state
        /\ \A i \in 1..Len(obs[t].restores) :
              LET call == obs[t].restores[i] IN
              /\ call.sent = NoState
                    => call.result = "false" /\ ~call.acked
              /\ call.acked
                    => \/ call.result = "true"
                       \/ call.result = "running" /\ ENABLED SendRecord(t)

(* C8: every operation other than wait_for_connection and auto_recover,    *)
(* which waits for the connection, returns.                                *)
C8_OperationsReturn ==
    \A t \in Clients :
        (stack[t] # <<>> /\ stack[t][1].fn \in
              {"restore_last_state", "set_color", "_send_state", "apply_effect"})
            ~> (stack[t] = <<>>)

(* C9: two restore_last_state calls in a row, with no push in between,     *)
(* both complete, send the same payload, and each returns True exactly if  *)
(* the device acknowledged it.                                             *)
C9_TwoRestores ==
    \A t \in Threads :
        LET calls == obs[t].restores IN
        /\ Len(calls) = 2 => calls[1].sent = calls[2].sent
        /\ \A i \in 1..Len(calls) :
              calls[i].result # "running"
                  => (calls[i].result = "true" <=> calls[i].acked)
        /\ Depth(t, "restore_last_state") => ENABLED ClientStep(t)

(* C10: auto_recover called while connected makes no request and returns   *)
(* False; called while disconnected it runs wait_for_connection, then      *)
(* restore_last_state, and returns True only if both returned True.        *)
C10_AutoRecover ==
    \A t \in Threads :
        LET r == obs[t].recover IN
        /\ r.entry = "connected"
              => /\ r.requests = 0
                 /\ r.result = "false"
                 /\ r.waited = "none"
                 /\ r.restored = "none"
        /\ (r.entry = "disconnected" /\ r.result # "none")
              => /\ r.waited # "none"
                 /\ r.waited = "true" => r.restored \in {"true", "false"}
                 /\ r.result = "true"
                       => (r.waited = "true" /\ r.restored = "true")
        /\ (r.entry = "disconnected" /\ r.result = "none")
              => Depth(t, "auto_recover")

C10_Witness ==
    /\ \E t \in Threads :
          /\ obs[t].recover.entry = "connected"
          /\ obs[t].recover.result = "false"
    /\ \E t \in Threads :
          /\ obs[t].recover.entry = "disconnected"
          /\ obs[t].recover.waited = "true"
          /\ obs[t].recover.restored = "false"
          /\ obs[t].recover.requests > 1
          /\ obs[t].recover.result = "false"

(***************************************************************************)
(* WLEDController.get_info answered 200 with a body that is JSON but not   *)
(* the object initialize expects.                                          *)
(***************************************************************************)
(* 200 with a falsy JSON value ({}, null, [], 0): get_info records a        *)
(* success and returns it; initialize takes the branch of "if info" that   *)
(* follows a failed get_info                                               *)
InitializeGetFalsy(t) ==
    /\ At(t, "initialize", "get_info")
    /\ stack[t][Len(stack[t]) - 1].attempt < MaxAttempt
    /\ system_health' = record_success(system_health)
    /\ stack' = Goto(t, "failed")
    /\ obs' = Requested(obs, t)
    /\ UNCHANGED <<is_connected, led_count, last_state, state_lock, flashing,
                   DEFAULT_MODE, devState, env, ret>>

(* 200 with a truthy JSON value that has no get, or whose 'leds' has none   *)
(* ([1], "x", {"leds": 5}): info.get(...) raises AttributeError, which     *)
(* neither initialize nor wait_for_connection nor auto_recover catches     *)
InitializeGetRaises(t) ==
    /\ At(t, "initialize", "get_info")
    /\ system_health' = record_success(system_health)
    /\ stack' = [stack EXCEPT ![t] = <<>>]
    /\ obs' = Requested(obs, t)
    /\ UNCHANGED <<is_connected, led_count, last_state, state_lock, flashing,
                   DEFAULT_MODE, devState, env, ret>>

(* the steps of connecting, with every answer /json/info can be given *)
ConnectStep(t) ==
    \/ InitializeGetOk(t)
    \/ InitializeGetFail(t)
    \/ InitializeGetFalsy(t)
    \/ InitializeGetRaises(t)
    \/ InitializeConnected(t)
    \/ InitializeFailed(t)
    \/ WaitLoop(t)
    \/ WaitAfterInitialize(t)
    \/ AutoRecoverCheck(t)
    \/ AutoRecoverAfterWait(t)
    \/ AutoRecoverAfterRestore(t)
    \/ RestoreAcquire(t)

(* a thread calls wait_for_connection or auto_recover *)
CallConnect(t) ==
    /\ role[t] = "client"
    /\ stack[t] = <<>>
    /\ \E frame \in {WaitFrame, AutoRecoverFrame} :
          stack' = [stack EXCEPT ![t] = <<frame>>]
    /\ ret' = [ret EXCEPT ![t] = FALSE]
    /\ obs' = [obs EXCEPT ![t] = NoObs]
    /\ UNCHANGED <<is_connected, led_count, last_state, state_lock, flashing,
                   system_health, DEFAULT_MODE, devState, env>>

NextConnect == \E t \in Threads : CallConnect(t) \/ ConnectStep(t)

SpecConnect == InitClient /\ [][NextConnect]_vars

(* thread t returns from initialize to its caller *)
InitializeReturns(t) ==
    /\ stack[t] # <<>>
    /\ Top(t).fn = "initialize"
    /\ Len(stack'[t]) = Len(stack[t]) - 1

(* C11: initialize never raises and returns a boolean: after a 200 with a  *)
(* body it returns True with connected set, the LED count stored and a     *)
(* success recorded; after any other answer get_info records a failure and *)
(* initialize returns False with connected cleared.                        *)
C11_InitializeTotal ==
    [][\A t \in Threads :
          (stack[t] # <<>> /\ Top(t).fn = "initialize") =>
             /\ Len(stack'[t]) >= Len(stack[t]) - 1
             /\ (Top(t).pc = "get_info" /\ stack'[t] # stack[t]
                   /\ stack'[t][Len(stack[t])].pc = "failed")
                   => /\ system_health'.failed_attempts
                             = system_health.failed_attempts + 1
                      /\ system_health'.last_error # "None"
             /\ (InitializeReturns(t) /\ Top(t).pc = "connected")
                   => /\ ret'[t] = TRUE
                      /\ is_connected'
                      /\ led_count' = LedCount
                      /\ system_health'.status = "healthy"
             /\ (InitializeReturns(t) /\ Top(t).pc = "failed")
                   => /\ ret'[t] = FALSE
                      /\ ~is_connected']_vars

(***************************************************************************)
(* WLEDController.wait_for_connection: the sleep between failed attempts.  *)
(***************************************************************************)
(* bound: the failed attempts of one call *)
MaxWaits == 6
(* bound: random.random() takes the values k / RandomSteps, k < RandomSteps *)
RandomSteps == 4

(* a base delay for which the cap applies from the first attempt *)
BeyondCap == 10000
(* a base delay just below the cap *)
BelowCap == 5800
(* the least RECONNECT_DELAY update_config accepts, 0.1 s *)
LeastDelay == 10

(* an off-by-cap of the delay: the min with max_delay forgotten *)
DelayUncapped(attempt) == config.RECONNECT_DELAY * (2 ^ (attempt - 1))

(* delay = min(Config.RECONNECT_DELAY * (2 ** (attempt - 1)), max_delay) *)
Delay(attempt) ==
    Min(config.RECONNECT_DELAY * (2 ^ (attempt - 1)), max_delay)

(* a jitter on either side of the delay *)
SleptEitherSide(delay, k) ==
    delay - (delay \div 10) + (2 * k * (delay \div 10)) \div RandomSteps

(* jitter = delay * 0.1; time.sleep(delay + (random.random() * jitter)) *)
Slept(delay, k) == delay + (k * (delay \div 10)) \div RandomSteps

BackoffFrame ==
    [fn |-> "wait_for_connection", pc |-> "loop", attempt |-> 1,
     waits |-> <<>>]

(* one pass of the loop in which initialize returns False: get_info fails, *)
(* initialize clears is_connected, the thread sleeps and counts the attempt *)
WaitFailedAttempt(t) ==
    /\ At(t, "wait_for_connection", "loop")
    /\ ~is_connected
    /\ Top(t).attempt <= MaxWaits
    /\ system_health' = record_failure(system_health)
    /\ is_connected' = FALSE
    /\ \E k \in 0..(RandomSteps - 1) :
          stack' = Become(t, [Top(t) EXCEPT
              !.attempt = @ + 1,
              !.waits = Append(@, [delay |-> Delay(Top(t).attempt),
                                   slept |-> Slept(Delay(Top(t).attempt), k)])])
    /\ UNCHANGED <<led_count, last_state, state_lock, flashing,
                   DEFAULT_MODE, devState, env, ret, obs>>

(* the thread of the supervisor calls wait_for_connection *)
CallWait(t) ==
    /\ role[t] = "supervisor"
    /\ stack[t] = <<>>
    /\ ~is_connected
    /\ stack' = [stack EXCEPT ![t] = <<BackoffFrame>>]
    /\ UNCHANGED <<is_connected, led_count, last_state, state_lock, flashing,
                   system_health, DEFAULT_MODE, devState, env, ret, obs>>

InitBackoff ==
    /\ InitController
    /\ reachable = "up"
    /\ config \in {[DefaultConfig EXCEPT !.RECONNECT_DELAY = d] :
                      d \in {LeastDelay, RECONNECT_DELAY, BelowCap, BeyondCap}}
    /\ DEFAULT_MODE = "white"
    /\ role = [t \in Threads |-> IF t = "sup" THEN "supervisor" ELSE "off"]
    /\ stack = [t \in Threads |-> <<>>]
    /\ ini = Saved(config, DEFAULT_MODE)

NextBackoff ==
    \E t \in Threads :
        \/ CallWait(t)
        \/ WaitFailedAttempt(t)
        \/ WaitLoop(t)
        \/ InitializeGetOk(t)
        \/ InitializeConnected(t)
        \/ WaitAfterInitialize(t)

SpecBackoff == InitBackoff /\ [][NextBackoff]_vars

(* the waits of the wait_for_connection call thread t is in *)
Waits(t) ==
    IF stack[t] # <<>> /\ stack[t][1].fn = "wait_for_connection"
    THEN stack[t][1].waits
    ELSE <<>>

(* C12, as claimed: within one wait_for_connection call the actual waits   *)
(* between failed attempts never decrease and stay within the 60 s cap.    *)
C12_WaitsNonDecreasing ==
    \A t \in Threads :
        LET w == Waits(t) IN
        /\ \A i \in 1..Len(w) : w[i].slept <= max_delay
        /\ \A i \in 1..(Len(w) - 1) : w[i].slept <= w[i + 1].slept

(* C12, amended: the base delays of the waits never decrease and stay      *)
(* within the cap; the actual wait, the base delay plus jitter, stays      *)
(* below 1.1 times the cap and does not decrease as long as the base delay *)
(* still doubles or the wait is still below the cap.                       *)
C12_BaseDelaysNonDecreasing ==
    \A t \in Threads :
        LET w == Waits(t) IN
        /\ \A i \in 1..Len(w) :
              /\ w[i].delay <= max_delay
              /\ 10 * w[i].slept < 11 * max_delay
        /\ \A i \in 1..(Len(w) - 1) :
              /\ w[i].delay <= w[i + 1].delay
              /\ w[i + 1].delay = 2 * w[i].delay
                    => w[i].slept <= w[i + 1].slept
              /\ w[i].slept < max_delay => w[i].slept <= w[i + 1].slept

C12_Witness ==
    \E t \in Threads :
        LET w == Waits(t) IN
        /\ Len(w) = MaxWaits
        /\ config.RECONNECT_DELAY = RECONNECT_DELAY
        /\ w[1].delay < max_delay
        /\ w[MaxWaits - 1].delay = max_delay
        /\ w[MaxWaits].slept < w[MaxWaits - 1].slept

(* C13: the wait after the n-th failed attempt, n = 0, 1, ..., lies in     *)
(* [d, 1.1 d] for d = min(RECONNECT_DELAY * 2^n, 60 s).                    *)
C13_WaitWithinJitter ==
    \A t \in Threads :
        LET w == Waits(t) IN
        \A i \in 1..Len(w) :
            LET d == IF config.RECONNECT_DELAY * (2 ^ (i - 1)) < max_delay
                     THEN config.RECONNECT_DELAY * (2 ^ (i - 1))
                     ELSE max_delay
            IN /\ d <= w[i].slept
               /\ 10 * w[i].slept <= 11 * d

C13_Witness ==
    \E t \in Threads :
        LET w == Waits(t) IN
        /\ Len(w) = MaxWaits
        /\ w[1].slept > w[1].delay
        /\ w[2].slept = 2 * w[1].delay
        /\ w[MaxWaits].slept > max_delay

(***************************************************************************)
(* SystemHealth, statement by statement: the callers of record_success,    *)
(* record_failure and record_button_press run concurrently and each body   *)
(* runs inside `with self._lock`.                                          *)
(***************************************************************************)
HealthCallers == {"hw", "sup", "w1"}

HealthCalls == {"record_success", "record_failure", "record_button_press"}

HealthFrame(fn) == [fn |-> fn, pc |-> "lock", read |-> 0]

(* a lock that lets every caller in *)
HealthLockIgnored == TRUE

(* threading.Lock: acquire blocks while another thread holds the lock *)
HealthLockIsFree == system_health.lock = NoThread

(* with self._lock: the caller enters the body of its method *)
HealthAcquire(t) ==
    /\ stack[t] # <<>>
    /\ Top(t).fn \in HealthCalls
    /\ Top(t).pc = "lock"
    /\ HealthLockIsFree
    /\ system_health' = [system_health EXCEPT !.lock = t]
    /\ stack' = Goto(t, "body")
    /\ UNCHANGED <<is_connected, led_count, last_state, state_lock, flashing,
                   DEFAULT_MODE, devState, role, line, newest, config, reachable, ini,
                   now, requests_per_ip, effects_cache,
                   ret,
                   obs,
                   recorded>>

(* self.last_successful_connection = datetime.now() *)
RecordSuccessTime(t) ==
    /\ At(t, "record_success", "body")
    /\ system_health' = [system_health EXCEPT !.last_successful_connection = TRUE]
    /\ stack' = Goto(t, "failed_attempts")
    /\ UNCHANGED <<is_connected, led_count, last_state, state_lock, flashing,
                   DEFAULT_MODE, devState, role, line, newest, config, reachable, ini,
                   now, requests_per_ip, effects_cache,
                   ret,
                   obs,
                   recorded>>

(* self.failed_attempts = 0 *)
RecordSuccessReset(t) ==
    /\ At(t, "record_success", "failed_attempts")
    /\ system_health' = [system_health EXCEPT !.failed_attempts = 0]
    /\ stack' = Goto(t, "status")
    /\ UNCHANGED <<is_connected, led_count, last_state, state_lock, flashing,
                   DEFAULT_MODE, devState, role, line, newest, config, reachable, ini,
                   now, requests_per_ip, effects_cache,
                   ret,
                   obs,
                   recorded>>

(* self.status = "healthy" *)
RecordSuccessStatus(t) ==
    /\ At(t, "record_success", "status")
    /\ system_health' = [system_health EXCEPT !.status = "healthy"]
    /\ stack' = Goto(t, "last_error")
    /\ UNCHANGED <<is_connected, led_count, last_state, state_lock, flashing,
                   DEFAULT_MODE, devState, role, line, newest, config, reachable, ini,
                   now, requests_per_ip, effects_cache,
                   ret,
                   obs,
                   recorded>>

(* self.last_error = None *)
RecordSuccessError(t) ==
    /\ At(t, "record_success", "last_error")
    /\ system_health' = [system_health EXCEPT !.last_error = "None"]
    /\ stack' = Goto(t, "unlock")
    /\ UNCHANGED <<is_connected, led_count, last_state, state_lock, flashing,
                   DEFAULT_MODE, devState, role, line, newest, config, reachable, ini,
                   now, requests_per_ip, effects_cache,
                   ret,
                   obs,
                   recorded>>

(* self.failed_attempts += 1, the load *)
RecordFailureLoad(t) ==
    /\ At(t, "record_failure", "body")
    /\ stack' = Become(t, [Top(t) EXCEPT
           !.pc = "store", !.read = system_health.failed_attempts])
    /\ UNCHANGED <<is_connected, led_count, last_state, state_lock, flashing,
                   system_health, DEFAULT_MODE, devState, role, line, newest,
                   config, reachable, ini, now, requests_per_ip, effects_cache,
                   ret, obs, recorded>>

(* self.failed_attempts += 1, the store *)
RecordFailureStore(t) ==
    /\ At(t, "record_failure", "store")
    /\ system_health' = [system_health EXCEPT !.failed_attempts = Top(t).read + 1]
    /\ stack' = Goto(t, "last_error")
    /\ UNCHANGED <<is_connected, led_count, last_state, state_lock, flashing,
                   DEFAULT_MODE, devState, role, line, newest, config, reachable, ini,
                   now, requests_per_ip, effects_cache,
                   ret,
                   obs,
                   recorded>>

(* self.last_error = str(error) *)
RecordFailureError(t) ==
    /\ At(t, "record_failure", "last_error")
    /\ system_health' = [system_health EXCEPT !.last_error = "error"]
    /\ stack' = Goto(t, "status")
    /\ UNCHANGED <<is_connected, led_count, last_state, state_lock, flashing,
                   DEFAULT_MODE, devState, role, line, newest, config, reachable, ini,
                   now, requests_per_ip, effects_cache,
                   ret,
                   obs,
                   recorded>>

(* self.status = critical or degraded *)
RecordFailureStatus(t) ==
    /\ At(t, "record_failure", "status")
    /\ system_health' = [system_health EXCEPT
           !.status = StatusAfterFailure(system_health.failed_attempts)]
    /\ stack' = Goto(t, "unlock")
    /\ UNCHANGED <<is_connected, led_count, last_state, state_lock, flashing,
                   DEFAULT_MODE, devState, role, line, newest, config, reachable, ini,
                   now, requests_per_ip, effects_cache,
                   ret,
                   obs,
                   recorded>>

(* self.button_press_count += 1, the load *)
RecordPressLoad(t) ==
    /\ At(t, "record_button_press", "body")
    /\ stack' = Become(t, [Top(t) EXCEPT
           !.pc = "store", !.read = system_health.button_press_count])
    /\ UNCHANGED <<is_connected, led_count, last_state, state_lock, flashing,
                   system_health, DEFAULT_MODE, devState, role, line, newest,
                   config, reachable, ini, now, requests_per_ip, effects_cache,
                   ret, obs, recorded>>

(* self.button_press_count += 1, the store *)
RecordPressStore(t) ==
    /\ At(t, "record_button_press", "store")
    /\ system_health' = [system_health EXCEPT !.button_press_count = Top(t).read + 1]
    /\ stack' = Goto(t, "unlock")
    /\ UNCHANGED <<is_connected, led_count, last_state, state_lock, flashing,
                   DEFAULT_MODE, devState, role, line, newest, config, reachable, ini,
                   now, requests_per_ip, effects_cache,
                   ret,
                   obs,
                   recorded>>

(* the calls that returned: a success ends the run of failures *)
Returned(fn) ==
    CASE fn = "record_success" ->
            [recorded EXCEPT !.failures = 0, !.last = "success"]
      [] fn = "record_failure" ->
            [recorded EXCEPT !.failures = @ + 1, !.last = "failure"]
      [] OTHER ->
            [recorded EXCEPT !.presses = @ + 1]

(* the end of the with block: the lock is released and the method returns *)
HealthRelease(t) ==
    /\ stack[t] # <<>>
    /\ Top(t).fn \in HealthCalls
    /\ Top(t).pc = "unlock"
    /\ system_health' = [system_health EXCEPT !.lock = NoThread]
    /\ recorded' = Returned(Top(t).fn)
    /\ stack' = [stack EXCEPT ![t] = <<>>]
    /\ UNCHANGED <<is_connected, led_count, last_state, state_lock, flashing,
                   DEFAULT_MODE, devState, role, line, newest, config, reachable, ini,
                   now, requests_per_ip, effects_cache,
                   ret,
                   obs>>

(* bound: the calls of one kind that are running or have returned *)
Running(fn) ==
    Cardinality({t \in Threads : stack[t] # <<>> /\ stack[t][1].fn = fn})

(* a thread calls one of the three methods *)
CallHealth(t) ==
    /\ t \in HealthCallers
    /\ stack[t] = <<>>
    /\ \E fn \in HealthCalls :
          /\ fn = "record_failure"
                => recorded.failures + Running(fn) < MaxFailures
          /\ fn = "record_button_press"
                => recorded.presses + Running(fn) < MaxPresses
          /\ stack' = [stack EXCEPT ![t] = <<HealthFrame(fn)>>]
    /\ UNCHANGED <<is_connected, led_count, last_state, state_lock, flashing,
                   system_health, DEFAULT_MODE, devState, env, ret, obs>>

HealthStep(t) ==
    \/ HealthAcquire(t)
    \/ RecordSuccessTime(t)
    \/ RecordSuccessReset(t)
    \/ RecordSuccessStatus(t)
    \/ RecordSuccessError(t)
    \/ RecordFailureLoad(t)
    \/ RecordFailureStore(t)
    \/ RecordFailureError(t)
    \/ RecordFailureStatus(t)
    \/ RecordPressLoad(t)
    \/ RecordPressStore(t)
    \/ HealthRelease(t)

InitHealth ==
    /\ InitController
    /\ config = DefaultConfig
    /\ reachable = "up"
    /\ DEFAULT_MODE = "white"
    /\ role = [t \in Threads |-> "off"]
    /\ stack = [t \in Threads |-> <<>>]
    /\ ini = Saved(config, DEFAULT_MODE)

NextHealth == \E t \in Threads : CallHealth(t) \/ HealthStep(t)

SpecHealth == InitHealth /\ [][NextHealth]_vars

(* what get_status reads: no caller is inside a with block *)
HealthObservable == system_health.lock = NoThread

(* no record_* call is running *)
HealthQuiet == \A t \in Threads : stack[t] = <<>>

(* C14: counted from zero failures, the status is degraded after each of   *)
(* the first MAX_FAILED_ATTEMPTS - 1 consecutive record_failure calls and  *)
(* critical at the MAX_FAILED_ATTEMPTS-th; a record_success from any state *)
(* leaves failed_attempts = 0 and the status healthy.                      *)
C14_DegradedThenCritical ==
    HealthQuiet =>
        /\ recorded.failures \in 1..(MAX_FAILED_ATTEMPTS - 1)
              => system_health.status = "degraded"
        /\ recorded.failures = MAX_FAILED_ATTEMPTS
              => system_health.status = "critical"
        /\ recorded.last = "success"
              => /\ system_health.failed_attempts = 0
                 /\ system_health.status = "healthy"

C14_Witness ==
    /\ HealthQuiet
    /\ recorded.failures = MAX_FAILED_ATTEMPTS
    /\ recorded.last = "failure"
    /\ system_health.last_successful_connection

(* C15: under every interleaving of the three methods, whenever the health *)
(* state can be read, healthy implies no failures and no error, critical   *)
(* is exactly failed_attempts >= MAX_FAILED_ATTEMPTS, degraded is exactly  *)
(* 0 < failed_attempts < MAX_FAILED_ATTEMPTS, and the two counters equal   *)
(* the calls that returned: no increment is lost.                          *)
C15_HealthConsistent ==
    HealthObservable =>
        /\ system_health.status = "healthy"
              => /\ system_health.failed_attempts = 0
                 /\ system_health.last_error = "None"
        /\ system_health.status = "critical"
              <=> system_health.failed_attempts >= MAX_FAILED_ATTEMPTS
        /\ system_health.status = "degraded"
              <=> /\ 0 < system_health.failed_attempts
                  /\ system_health.failed_attempts < MAX_FAILED_ATTEMPTS
        /\ system_health.failed_attempts = recorded.failures
        /\ system_health.button_press_count = recorded.presses

C15_Witness ==
    /\ HealthObservable
    /\ recorded.failures = MAX_FAILED_ATTEMPTS
    /\ recorded.presses > 0
    /\ system_health.status = "critical"
    /\ \E t, u \in HealthCallers :
          /\ t # u
          /\ At(t, "record_failure", "lock")
          /\ At(u, "record_button_press", "lock")

(* C16: after any sequence of acknowledged device operations (set_color,   *)
(* set_white, apply_effect), once the calls have returned, the payload     *)
(* restore_last_state would send, _last_state, is the visual state the     *)
(* device acknowledged last.                                               *)
C16_RestoreSendsLastAcknowledged ==
    (/\ \A t \in Threads : stack[t] = <<>>
     /\ devState # NoState)
        => last_state = devState

(***************************************************************************)
(* hardware_button_loop, in the thread main starts for it, with a device   *)
(* that goes down once and comes back.  While the device is down every     *)
(* request fails with a RequestException; otherwise every request is       *)
(* answered.  The counters of failures and of attempts stop at their       *)
(* bounds, so that an outage can last for ever.                            *)
(***************************************************************************)
HardwareFrame ==
    [fn |-> "hardware_button_loop", pc |-> "startup", pressed |-> FALSE,
     held |-> 0, blinking_red |-> FALSE, blink_state |-> FALSE,
     blink_age |-> 0, pushed |-> None, asserted |-> None]

(* history of a press, kept where it is asked for: pushed says that the
   loop has called set_color with red since it handled the last release,
   asserted counts the ticks the line has been asserted since then *)
Reset(x) == IF x = None THEN None ELSE 0

Mark(x) == IF x = None THEN None ELSE 1

(* if Config.DEFAULT_MODE == "white": set_white() elif "effect": apply_effect *)
HardwareStartup(t) ==
    /\ At(t, "hardware_button_loop", "startup")
    /\ stack' = Call(t, "loop", RevertFrame)
    /\ UNCHANGED <<is_connected, led_count, last_state, state_lock, flashing,
                   system_health, DEFAULT_MODE, devState, env, ret, obs>>

(* while not stop_event.is_set():
   if not wled.is_connected: wled.auto_recover() *)
HardwareLoop(t) ==
    /\ At(t, "hardware_button_loop", "loop")
    /\ ~stop_event
    /\ IF ~is_connected
       THEN stack' = Call(t, "after_recover", AutoRecoverFrame)
       ELSE stack' = Goto(t, "read")
    /\ UNCHANGED <<is_connected, led_count, last_state, state_lock, flashing,
                   system_health, DEFAULT_MODE, devState, env, ret, obs>>

(* recovered: go on to the read; else time.sleep(RECONNECT_DELAY); continue *)
HardwareAfterRecover(t) ==
    /\ At(t, "hardware_button_loop", "after_recover")
    /\ stack' = Goto(t, IF ret[t] THEN "read" ELSE "loop")
    /\ UNCHANGED <<is_connected, led_count, last_state, state_lock, flashing,
                   system_health, DEFAULT_MODE, devState, env, ret, obs>>

(* a pass that starts the red blinking one tick before the threshold *)
HeldPassEarly(frame) ==
    LET started == frame.held + 1 >= LONG_PRESS_THRESHOLD /\ ~frame.blinking_red
        f == IF started
             THEN [frame EXCEPT !.blinking_red = TRUE, !.blink_state = FALSE,
                                !.blink_age = 0]
             ELSE frame
    IN  IF f.blinking_red /\ f.blink_age >= HalfInterval
        THEN <<[f EXCEPT !.pc = "after_set",
                         !.pushed = IF f.blink_state THEN @ ELSE Mark(@)],
               IF f.blink_state
               THEN SetColorFrame(0, 0, 0, 0)
               ELSE SetColorFrame(255, 0, 0, FLASH_BRIGHTNESS)>>
        ELSE <<[f EXCEPT !.pc = "sleep"]>>

(* the frame and the call of a pass in which the button is still held *)
HeldPass(frame) ==
    LET started == frame.held >= LONG_PRESS_THRESHOLD /\ ~frame.blinking_red
        f == IF started
             THEN [frame EXCEPT !.blinking_red = TRUE, !.blink_state = FALSE,
                                !.blink_age = 0]
             ELSE frame
    IN  IF f.blinking_red /\ f.blink_age >= HalfInterval
        THEN <<[f EXCEPT !.pc = "after_set",
                         !.pushed = IF f.blink_state THEN @ ELSE Mark(@)],
               IF f.blink_state
               THEN SetColorFrame(0, 0, 0, 0)
               ELSE SetColorFrame(255, 0, 0, FLASH_BRIGHTNESS)>>
        ELSE <<[f EXCEPT !.pc = "sleep"]>>

(* the frame and the call of a pass in which the button was let go *)
ReleasedPass(frame) ==
    LET f == [frame EXCEPT !.pc = "sleep", !.pressed = FALSE, !.held = 0,
                           !.blinking_red = FALSE, !.blink_age = 0,
                           !.pushed = Reset(@), !.asserted = Reset(@)]
    IN  IF frame.blinking_red
        THEN <<f, RevertFrame>>
        ELSE IF frame.held < LONG_PRESS_THRESHOLD
        THEN <<f, BlinkGreenFrame>>
        ELSE <<f, BlinkRedFrame>>

(* current_state = GPIO.input(Config.BUTTON_PIN) and the branch it selects *)
HardwareRead(t) ==
    /\ At(t, "hardware_button_loop", "read")
    /\ IF ~Top(t).pressed
       THEN IF line = 0
            THEN /\ flashing' = FALSE
                 /\ stack' = Become(t, [Top(t) EXCEPT
                        !.pc = "sleep", !.pressed = TRUE, !.held = 0,
                        !.blinking_red = FALSE])
            ELSE /\ flashing' = flashing
                 /\ stack' = Goto(t, "sleep")
       ELSE /\ flashing' = flashing
            /\ stack' = [stack EXCEPT ![t] =
                  SubSeq(@, 1, Len(@) - 1)
                     \o (IF line = 1 THEN ReleasedPass(Top(t))
                                     ELSE HeldPass(Top(t)))]
    /\ UNCHANGED <<is_connected, led_count, last_state, state_lock,
                   system_health, DEFAULT_MODE, devState, env, ret, obs>>

(* if not wled.set_color(...): wled.auto_recover() *)
HardwareAfterSet(t) ==
    /\ At(t, "hardware_button_loop", "after_set")
    /\ IF ret[t]
       THEN stack' = Become(t, [Top(t) EXCEPT
                !.pc = "sleep", !.blink_state = ~@, !.blink_age = 0])
       ELSE stack' = Call(t, "toggle", AutoRecoverFrame)
    /\ UNCHANGED <<is_connected, led_count, last_state, state_lock, flashing,
                   system_health, DEFAULT_MODE, devState, env, ret, obs>>

(* blink_state = not blink_state; last_blink_time = now *)
HardwareToggle(t) ==
    /\ At(t, "hardware_button_loop", "toggle")
    /\ stack' = Become(t, [Top(t) EXCEPT
           !.pc = "sleep", !.blink_state = ~@, !.blink_age = 0])
    /\ UNCHANGED <<is_connected, led_count, last_state, state_lock, flashing,
                   system_health, DEFAULT_MODE, devState, env, ret, obs>>

(* time.sleep(0.01) *)
HardwareSleep(t) ==
    /\ At(t, "hardware_button_loop", "sleep")
    /\ stack' = Goto(t, "loop")
    /\ UNCHANGED <<is_connected, led_count, last_state, state_lock, flashing,
                   system_health, DEFAULT_MODE, devState, env, ret, obs>>

(* bound: failed_attempts stops at MaxFailures, where the status is critical *)
RecordFailureBounded(h) == IF CanFail THEN record_failure(h) ELSE h

(* the device is down: the POST of _send_state raises a RequestException *)
DownSendPost(t) ==
    /\ reachable = "down"
    /\ At(t, "_send_state", "post")
    /\ system_health' = RecordFailureBounded(system_health)
    /\ is_connected' = FALSE
    /\ SendFailed(t, "net")
    /\ UNCHANGED <<led_count, last_state, state_lock, flashing,
                   DEFAULT_MODE, devState, env>>

(* the device is down: the POST of apply_effect raises a RequestException *)
DownApplyEffect(t) ==
    /\ reachable = "down"
    /\ At(t, "apply_effect", "post")
    /\ system_health' = RecordFailureBounded(system_health)
    /\ is_connected' = FALSE
    /\ Returns(t, FALSE)
    /\ UNCHANGED <<led_count, last_state, state_lock, flashing,
                   DEFAULT_MODE, devState, env, obs>>

(* the device is down: the GET of get_info raises a RequestException *)
DownGetInfo(t) ==
    /\ reachable = "down"
    /\ At(t, "initialize", "get_info")
    /\ system_health' = RecordFailureBounded(system_health)
    /\ stack' = Goto(t, "failed")
    /\ UNCHANGED <<is_connected, led_count, last_state, state_lock, flashing,
                   DEFAULT_MODE, devState, env, ret, obs>>

(* if self.initialize(): return True; else sleep, attempt += 1 *)
(* bound: attempt stops at MaxAttempt *)
WaitAfterInitializeBounded(t) ==
    /\ At(t, "wait_for_connection", "after_initialize")
    /\ IF ret[t]
       THEN Returns(t, TRUE)
       ELSE /\ stack' = Become(t, [Top(t) EXCEPT
                   !.attempt = Min(@ + 1, MaxAttempt), !.pc = "loop"])
            /\ ret' = ret
    /\ UNCHANGED <<is_connected, led_count, last_state, state_lock, flashing,
                   system_health, DEFAULT_MODE, devState, env, obs>>

(* the requests of thread t while the device answers *)
UpStep(t) ==
    /\ reachable # "down"
    /\ \/ SendPostOk(t)
       \/ ApplyEffectOk(t)
       \/ InitializeGetOk(t)

(* the steps of the client that make no request *)
LocalStep(t) ==
    \/ SetColorGuard(t)
    \/ SendRecord(t)
    \/ RestoreAcquire(t)
    \/ InitializeConnected(t)
    \/ InitializeFailed(t)
    \/ WaitLoop(t)
    \/ WaitAfterInitializeBounded(t)
    \/ AutoRecoverCheck(t)
    \/ AutoRecoverAfterWait(t)
    \/ AutoRecoverAfterRestore(t)

(* the sequences the loop calls *)
SequenceStep(t) ==
    \/ BlinkGreenEntry(t)
    \/ BlinkGreenLoop(t)
    \/ BlinkGreenRedLoop(t)
    \/ BlinkGreenAfterSet(t)
    \/ BlinkGreenAfterRecover(t)
    \/ BlinkGreenSleep(t)
    \/ BlinkGreenAfterRevert(t)
    \/ BlinkGreenFinally(t)
    \/ BlinkRedEntry(t)
    \/ BlinkRedLoop(t)
    \/ BlinkRedAfterSet(t)
    \/ BlinkRedAfterRecover(t)
    \/ BlinkRedSleep(t)
    \/ BlinkRedFinally(t)

HardwareStep(t) ==
    \/ HardwareStartup(t)
    \/ HardwareLoop(t)
    \/ HardwareAfterRecover(t)
    \/ HardwareRead(t)
    \/ HardwareAfterSet(t)
    \/ HardwareToggle(t)
    \/ HardwareSleep(t)
    \/ SequenceStep(t)
    \/ LocalStep(t)
    \/ UpStep(t)
    \/ DownSendPost(t)
    \/ DownApplyEffect(t)
    \/ DownGetInfo(t)

(* the device leaves the network *)
DeviceFails ==
    /\ reachable = "up"
    /\ reachable' = "down"
    /\ UNCHANGED <<is_connected, led_count, last_state, state_lock, flashing,
                   system_health, DEFAULT_MODE, devState, role, line, newest,
                   config, recorded, ini, now, requests_per_ip, effects_cache,
                   stack, ret, obs>>

(* the device is back on the network, for good *)
DeviceReturns ==
    /\ reachable = "down"
    /\ reachable' = "restored"
    /\ UNCHANGED <<is_connected, led_count, last_state, state_lock, flashing,
                   system_health, DEFAULT_MODE, devState, role, line, newest,
                   config, recorded, ini, now, requests_per_ip, effects_cache,
                   stack, ret, obs>>

InitHardware ==
    /\ InitController
    /\ config = DefaultConfig
    /\ reachable \in {"up", "down"}
    /\ DEFAULT_MODE \in {"white", "effect"}
    /\ role = [t \in Threads |-> IF t = "hw" THEN "hardware" ELSE "off"]
    /\ stack = [t \in Threads |-> IF t = "hw" THEN <<HardwareFrame>> ELSE <<>>]
    /\ ini = Saved(config, DEFAULT_MODE)

(* bound: the button is pressed while short presses are left to count *)
ButtonUsed ==
    /\ line = 1 => system_health.button_press_count < MaxPresses
    /\ ButtonChange

NextHardware ==
    \/ HardwareStep("hw")
    \/ Tick
    \/ ButtonUsed
    \/ DeviceFails
    \/ DeviceReturns

SpecHardware == InitHardware /\ [][NextHardware]_vars

(* the thread of the loop keeps running, and time passes *)
FairSpecHardware ==
    SpecHardware /\ WF_vars(HardwareStep("hw")) /\ WF_vars(Tick)

(* the loop, or the sequence it runs, is about to read the input line *)
ReadsLine ==
    \/ At("hw", "hardware_button_loop", "read")
    \/ At("hw", "blink_green_for_30s", "loop")
    \/ At("hw", "blink_green_for_30s", "red_loop")

(* C17: while the device is down the hardware button loop keeps reading    *)
(* the input line: from every moment of the outage on, the loop reads the  *)
(* line again unless the outage ends first, so that a press and a release  *)
(* made during the outage are seen.                                        *)
C17_ReadsDuringOutage ==
    (reachable = "down") ~> (ReadsLine \/ reachable # "down")

(* C18: once the device is back and stays reachable, the hardware button   *)
(* loop reads the input line again, whatever was pushed before the outage. *)
C18_ResumesAfterOutage ==
    (reachable = "restored") ~> ReadsLine

(***************************************************************************)
(* update_config: the POST of the configuration form.  A form field is     *)
(* absent or a text: the text of a whole number, of a decimal number (the  *)
(* value counted in hundredths) or of no number; WLED_IP is absent, an     *)
(* address or not an address.  The form of the page always carries        *)
(* WLED_IP; the fields update_numeric handles alike are represented by     *)
(* FLASH_INTERVAL, FLASH_BRIGHTNESS and DEFAULT_EFFECT_SPEED.              *)
(***************************************************************************)
Absent == [kind |-> "absent", val |-> 0]

IntText(n) == [kind |-> "int", val |-> n]

FloatText(hundredths) == [kind |-> "float", val |-> hundredths]

Junk == [kind |-> "junk", val |-> 0]

(* an address inet_aton accepts, other than the configured one *)
OtherAddress == [kind |-> "address", val |-> "10.0.0.7"]

(* bound: the values a form carries *)
Forms ==
    [WLED_IP : {OtherAddress, Junk},
     FLASH_INTERVAL : {Absent, FloatText(LeastDelay), FloatText(LeastDelay - 1)},
     FLASH_BRIGHTNESS : {Absent, IntText(0), IntText(FLASH_BRIGHTNESS + 1)},
     DEFAULT_EFFECT_SPEED : {Absent, IntText(DEFAULT_EFFECT_SPEED + 128)},
     mode : {Absent, [kind |-> "mode", val |-> "white"],
             [kind |-> "mode", val |-> "effect"], Junk},
     effect_index : {Absent, IntText(MaxEffectIndex + 1), Junk}]

(* the numeric fields in the order of the validations list: the key, *)
(* min_val, max_val and is_int; min_val of the durations is 0.1      *)
NumericFields ==
    <<[key |-> "FLASH_INTERVAL", min_val |-> LeastDelay, max_val |-> None,
       is_int |-> FALSE],
      [key |-> "FLASH_BRIGHTNESS", min_val |-> 0, max_val |-> 255,
       is_int |-> TRUE],
      [key |-> "DEFAULT_EFFECT_SPEED", min_val |-> 0, max_val |-> 255,
       is_int |-> TRUE]>>

(* int(text) or float(text) does not raise ValueError; a whole number in a *)
(* duration field counts in seconds                                        *)
Parses(text, is_int) ==
    IF is_int THEN text.kind = "int" ELSE text.kind \in {"int", "float"}

Parsed(text, is_int) ==
    IF ~is_int /\ text.kind = "int" THEN 100 * text.val ELSE text.val

(* update_numeric: setattr at once if the value is valid, else False *)
update_numeric(cfg, form, field) ==
    LET text == form[field.key] IN
    IF text.kind = "absent"
    THEN [ok |-> TRUE, cfg |-> cfg]
    ELSE IF /\ Parses(text, field.is_int)
            /\ Parsed(text, field.is_int) >= field.min_val
            /\ field.max_val # None
                  => Parsed(text, field.is_int) <= field.max_val
    THEN [ok |-> TRUE,
          cfg |-> [cfg EXCEPT ![field.key] = Parsed(text, field.is_int)]]
    ELSE [ok |-> FALSE, cfg |-> cfg]

(* validations = [update_numeric(...), ...]: every element is evaluated *)
RECURSIVE Validations(_, _, _)
Validations(cfg, form, i) ==
    IF i > Len(NumericFields)
    THEN [ok |-> TRUE, cfg |-> cfg]
    ELSE LET one == update_numeric(cfg, form, NumericFields[i])
             rest == Validations(one.cfg, form, i + 1)
         IN  [ok |-> one.ok /\ rest.ok, cfg |-> rest.cfg]

(* the body of update_config up to write_to_ini: the configuration, the    *)
(* mode and the response it ends with                                       *)
Updated(cfg, mode, form) ==
    IF form.WLED_IP.kind = "junk"
    THEN [cfg |-> cfg, mode |-> mode, response |-> "400"]
    ELSE
    LET c1 == [cfg EXCEPT !.WLED_IP = form.WLED_IP.val]
        v == Validations(c1, form, 1)
        selected_mode == IF form.mode.kind = "absent" THEN mode
                         ELSE IF form.mode.kind = "mode" THEN form.mode.val
                         ELSE "junk"
    IN  IF ~v.ok
        THEN [cfg |-> v.cfg, mode |-> mode, response |-> "400"]
        ELSE IF selected_mode \notin {"white", "effect"}
        THEN [cfg |-> v.cfg, mode |-> mode, response |-> "400"]
        ELSE IF selected_mode = "white" \/ form.effect_index.kind = "absent"
        THEN [cfg |-> v.cfg, mode |-> selected_mode, response |-> "redirect"]
        ELSE IF form.effect_index.kind # "int"
        THEN [cfg |-> v.cfg, mode |-> selected_mode, response |-> "400"]
        ELSE [cfg |-> [v.cfg EXCEPT
                         !.DEFAULT_EFFECT_INDEX = form.effect_index.val],
              mode |-> selected_mode, response |-> "redirect"]

UpdateConfigFrame(pc, response) ==
    [fn |-> "update_config", pc |-> pc, response |-> response,
     before |-> Saved(config, DEFAULT_MODE)]

(* a form is posted: the handler validates and assigns, and then either    *)
(* answers 400 or writes the INI file and applies the selected mode        *)
UpdateConfig(t) ==
    /\ role[t] = "web"
    /\ stack[t] = <<>>
    /\ \E form \in Forms :
          LET r == Updated(config, DEFAULT_MODE, form) IN
          /\ config' = r.cfg
          /\ DEFAULT_MODE' = r.mode
          /\ IF r.response = "redirect"
             THEN /\ ini' = Saved(r.cfg, r.mode)
                  /\ stack' = [stack EXCEPT ![t] =
                        <<UpdateConfigFrame("respond", r.response),
                          IF r.mode = "white"
                          THEN SetWhiteFrame
                          ELSE ApplyEffectFrame(r.cfg.DEFAULT_EFFECT_INDEX)>>]
             ELSE /\ ini' = ini
                  /\ stack' = [stack EXCEPT ![t] =
                        <<UpdateConfigFrame("respond", r.response)>>]
    /\ obs' = [obs EXCEPT ![t] = NoObs]
    /\ UNCHANGED <<is_connected, led_count, last_state, state_lock, flashing,
                   system_health, devState, role, line, newest, recorded,
                   reachable, now, requests_per_ip, effects_cache, ret>>

(* return redirect(...) or return jsonify({"error": ...}), 400 *)
UpdateConfigRespond(t) ==
    /\ At(t, "update_config", "respond")
    /\ stack' = [stack EXCEPT ![t] = <<>>]
    /\ UNCHANGED <<is_connected, led_count, last_state, state_lock, flashing,
                   system_health, DEFAULT_MODE, devState, env, ret, obs>>

(* the pushes of the handler, which the device answers *)
ApplyStep(t) ==
    \/ SetColorGuard(t)
    \/ SendPostOk(t)
    \/ SendRecord(t)
    \/ ApplyEffectOk(t)

InitConfig ==
    /\ InitWeb
    /\ DEFAULT_MODE = "white"

NextConfig ==
    \/ UpdateConfig("w1")
    \/ UpdateConfigRespond("w1")
    \/ ApplyStep("w1")

SpecConfig == InitConfig /\ [][NextConfig]_vars

(* C19: an update_config request that is answered with a validation error  *)
(* leaves every Config field as it was before the request.                 *)
C19_RejectedChangesNothing ==
    \A t \in Threads :
        (/\ At(t, "update_config", "respond")
         /\ Top(t).response = "400")
            => Saved(config, DEFAULT_MODE) = Top(t).before

(* Config.validate, for the fields of the model *)
validate(cfg, mode) ==
    /\ 0 <= cfg.FLASH_BRIGHTNESS /\ cfg.FLASH_BRIGHTNESS <= 255
    /\ cfg.FLASH_INTERVAL > 0
    /\ mode \in {"white", "effect"}
    /\ 0 <= cfg.DEFAULT_EFFECT_INDEX /\ cfg.DEFAULT_EFFECT_INDEX <= MaxEffectIndex
    /\ 0 <= cfg.DEFAULT_EFFECT_SPEED /\ cfg.DEFAULT_EFFECT_SPEED <= 255

(* C20: from a configuration Config.validate accepts, after any sequence   *)
(* of update_config requests the configuration is still in the validated   *)
(* ranges: brightness and effect speed in 0..255, effect index in 0..200,  *)
(* a positive interval, mode white or effect.                              *)
C20_ConfigStaysValid == validate(config, DEFAULT_MODE)

(***************************************************************************)
(* Properties of the sequences the hardware button loop runs               *)
(***************************************************************************)

(* the frame of the push that thread t makes on top of frame i, if any *)
PushedOn(t, i) ==
    /\ Len(stack[t]) = i
    /\ Len(stack'[t]) = i + 1

(* C21: in a short-pattern run, once the loop sees the line asserted for   *)
(* LONG_PRESS_THRESHOLD it goes over to the long pattern at once; from     *)
(* then on it pushes only red and off while the line stays asserted, then  *)
(* reverts to the default and returns, and it pushes no blue again.        *)
C21_LongPatternPreempts ==
    [][\A t \in Threads : \A i \in 1..Len(stack[t]) :
          stack[t][i].fn = "blink_green_for_30s" =>
            LET f == stack[t][i] IN
            /\ (/\ i = Len(stack[t])
                /\ f.pc = "loop"
                /\ f.elapsed < SHORT_FLASH_DURATION /\ flashing
                /\ line = 0
                /\ f.pressed_for # None
                /\ f.pressed_for >= LONG_PRESS_THRESHOLD
                /\ Len(stack'[t]) >= i
                /\ stack'[t][i].pc # "loop")
                  => /\ Len(stack'[t]) = i
                     /\ stack'[t][i].red
                     /\ stack'[t][i].pc = "red_loop"
            /\ (f.red /\ PushedOn(t, i))
                  => \/ /\ stack'[t][i].pc = "after_set"
                        /\ line = 0 /\ flashing
                        /\ stack'[t][i + 1].fn = "set_color"
                        /\ stack'[t][i + 1].state \in {RED, OFF}
                     \/ /\ stack'[t][i].pc = "after_set"
                        /\ stack'[t][i + 1] = AutoRecoverFrame
                     \/ /\ stack'[t][i].pc = "after_recover"
                        /\ stack'[t][i + 1] = AutoRecoverFrame
                     \/ /\ stack'[t][i].pc = "finally"
                        /\ stack'[t][i + 1] = RevertFrame
            /\ (f.red /\ Len(stack'[t]) >= i) => stack'[t][i].red
            /\ (f.red /\ f.pc = "finally" /\ i = Len(stack[t])
                      /\ stack'[t] # stack[t] /\ Len(stack'[t]) >= i)
                  => stack'[t][i] = Age(f)]_vars

(* the long pattern ran while the line was held, the line was let go, the  *)
(* default was pushed again and the run is about to return                 *)
C21_Witness ==
    /\ At("hw", "blink_green_for_30s", "finally")
    /\ Top("hw").red
    /\ line = 1
    /\ devState = DefaultAppearance
    /\ last_state = WHITE
    /\ obs["hw"].sequence.reverts = 1

(* C27: when a long press was detected in a short-pattern run and the      *)
(* duration of the short pattern has passed by the time the release is     *)
(* seen, the run goes on, after its revert, to the check that starts       *)
(* blink_red_alert.                                                        *)
C27_FallsThroughToRedAlert ==
    [][\A t \in Threads :
          (/\ At(t, "blink_green_for_30s", "red_loop")
           /\ Top(t).long_press_initiated
           /\ Top(t).elapsed >= SHORT_FLASH_DURATION
           /\ line = 1
           /\ Len(stack'[t]) = Len(stack[t]) + 1)
              => stack'[t][Len(stack[t])].pc = "after_revert"]_vars

(***************************************************************************)
(* rate_limit: the decorator of the four web routes                        *)
(***************************************************************************)
(* bound: Config.API_RATE_LIMIT (100 in the source), scaled *)
API_RATE_LIMIT == 2

(* bound: the window of 60 seconds, in ticks of the clock *)
Window == 1

(* bound: the last tick of the clock *)
MaxNow == 1

(* bound: the timestamps held by all the dictionaries together *)
MaxAdmitted == 3

Handlers == {"w1", "w2"}

RECURSIVE Held(_, _)
(* [ts for ts in v if ts > now - 60] *)
Held(v, time) ==
    IF v = <<>> THEN <<>>
    ELSE IF Head(v) > time - Window THEN <<Head(v)>> \o Held(Tail(v), time)
         ELSE Held(Tail(v), time)

RECURSIVE Total(_, _)
Total(f, keys) ==
    IF keys = {} THEN 0
    ELSE LET k == CHOOSE k \in keys : TRUE
         IN  f[k] + Total(f, keys \ {k})

(* the timestamps of one address that are still within the window *)
Admitted(ip) ==
    Total([route \in Routes |-> Len(Held(requests_per_ip[route][ip], now))],
          Routes)

Stored ==
    Total([cell \in Routes \X Addresses |->
              Len(requests_per_ip[cell[1]][cell[2]])], Routes \X Addresses)

RateFrame(route, ip) ==
    [fn |-> "decorated", pc |-> "clean", route |-> route, ip |-> ip,
     now |-> now]

(* a request of an address reaches a route: now = time.time(),
   ip = request.remote_addr *)
RateRequest(t) ==
    /\ t \in Handlers
    /\ stack[t] = <<>>
    /\ Stored < MaxAdmitted
    /\ \E route \in Routes, ip \in Addresses :
          stack' = [stack EXCEPT ![t] = <<RateFrame(route, ip)>>]
    /\ UNCHANGED <<is_connected, led_count, last_state, state_lock, flashing,
                   system_health, DEFAULT_MODE, devState, env, ret, obs>>

(* the lists of the dictionary of this route lose their old timestamps *)
RateClean(t) ==
    /\ At(t, "decorated", "clean")
    /\ requests_per_ip' =
          [requests_per_ip EXCEPT ![Top(t).route] =
              [ip \in Addresses |-> Held(@[ip], Top(t).now)]]
    /\ stack' = Goto(t, "check")
    /\ UNCHANGED <<is_connected, led_count, last_state, state_lock, flashing,
                   system_health, DEFAULT_MODE, devState, role, line, newest,
                   config, recorded, reachable, ini, now, effects_cache,
                   ret, obs>>

(* if len(requests_per_ip[ip]) >= Config.API_RATE_LIMIT: return 429 *)
RateCheck(t) ==
    /\ At(t, "decorated", "check")
    /\ IF Len(requests_per_ip[Top(t).route][Top(t).ip]) >= API_RATE_LIMIT
       THEN Returns(t, "429")
       ELSE /\ stack' = Goto(t, "append")
            /\ UNCHANGED ret
    /\ UNCHANGED <<is_connected, led_count, last_state, state_lock, flashing,
                   system_health, DEFAULT_MODE, devState, env, obs>>

(* requests_per_ip[ip].append(now) *)
RateAppend(t) ==
    /\ At(t, "decorated", "append")
    /\ requests_per_ip' =
          [requests_per_ip EXCEPT ![Top(t).route][Top(t).ip] =
              Append(@, Top(t).now)]
    /\ stack' = Goto(t, "handler")
    /\ UNCHANGED <<is_connected, led_count, last_state, state_lock, flashing,
                   system_health, DEFAULT_MODE, devState, role, line, newest,
                   config, recorded, reachable, ini, now, effects_cache,
                   ret, obs>>

(* return f(...): the handler of the route runs *)
RateHandler(t) ==
    /\ At(t, "decorated", "handler")
    /\ Returns(t, "200")
    /\ UNCHANGED <<is_connected, led_count, last_state, state_lock, flashing,
                   system_health, DEFAULT_MODE, devState, env, obs>>

(* the clock of time.time() moves on *)
TimePasses ==
    /\ now < MaxNow
    /\ now' = now + 1
    /\ UNCHANGED <<is_connected, led_count, last_state, state_lock, flashing,
                   system_health, DEFAULT_MODE, devState, role, line, newest,
                   config, recorded, reachable, ini, requests_per_ip,
                   effects_cache, stack, ret, obs>>

RateStep(t) ==
    \/ RateRequest(t)
    \/ RateClean(t)
    \/ RateCheck(t)
    \/ RateAppend(t)
    \/ RateHandler(t)

InitRate == InitHealth

NextRate == (\E t \in Threads : RateStep(t)) \/ TimePasses

SpecRate == InitRate /\ [][NextRate]_vars

(* C22: for each client address, the requests admitted to the rate-limited
   routes within one window, counted over all the routes together and with
   the request threads running concurrently, are at most API_RATE_LIMIT *)
C22_AtMostLimitPerAddress ==
    \A ip \in Addresses : Admitted(ip) <= API_RATE_LIMIT

(***************************************************************************)
(* src/RGBWBlinker.py: the blink effect of the RGBW variant                *)
(***************************************************************************)
RgbwBlue == <<0, 0, 255, 0>>
RgbwWhite == <<0, 0, 0, 255>>
RgbwRed == <<255, 0, 0, 0>>
RgbwOff == <<0, 0, 0, 0>>

(* speed = 233 of the short pattern, speed = 200 of the red alert *)
ShortSpeed == 233
AlertSpeed == 200

(* the payload of set_alert_effect: "col": [color, second_color], "fx": 1 *)
AlertEffect(color, speed, second_color) ==
    [on |-> TRUE, bri |-> FLASH_BRIGHTNESS, col |-> <<color, second_color>>,
     fx |-> 1, sx |-> speed, ix |-> DEFAULT_EFFECT_INTENSITY]

(* what revert_to_user_default pushes: set_white() or the default effect *)
RgbwDefault ==
    IF DEFAULT_MODE = "white"
    THEN [on |-> TRUE, bri |-> FLASH_BRIGHTNESS, col |-> <<RgbwWhite>>,
          fx |-> 0, sx |-> 0, ix |-> 0]
    ELSE [on |-> TRUE, bri |-> FLASH_BRIGHTNESS, col |-> <<>>,
          fx |-> DEFAULT_EFFECT_INDEX, sx |-> DEFAULT_EFFECT_SPEED,
          ix |-> DEFAULT_EFFECT_INTENSITY]

RgbwGreenFrame ==
    [fn |-> "blink_green_for_30s", pc |-> "rgbw_entry", elapsed |-> 0,
     slept |-> 0, pressed_for |-> None, long_press_initiated |-> FALSE,
     sent |-> <<>>]

RgbwRedFrame ==
    [fn |-> "blink_red_alert", pc |-> "rgbw_entry", elapsed |-> 0,
     slept |-> 0, sent |-> <<>>]

RgbwCallers == {"hw", "w1"}

(* the hardware loop or a simulated press starts a pattern *)
RgbwCall(t) ==
    /\ t \in RgbwCallers
    /\ stack[t] = <<>>
    /\ system_health.button_press_count < MaxPresses
    /\ \E frame \in {RgbwGreenFrame, RgbwRedFrame} :
          stack' = [stack EXCEPT ![t] = <<frame>>]
    /\ UNCHANGED <<is_connected, led_count, last_state, state_lock, flashing,
                   system_health, DEFAULT_MODE, devState, env, ret, obs>>

(* set_alert_effect: one POST; 200 records a success, anything else a
   failure, and the caller runs auto_recover after a failure *)
RgbwSetAlertEffect(t, payload, pc) ==
    /\ stack' = Become(t, [Top(t) EXCEPT !.pc = pc,
                                         !.sent = Append(@, payload.col)])
    /\ IF reachable = "up"
       THEN /\ devState' = payload
            /\ system_health' = record_success(system_health)
       ELSE /\ devState' = devState
            /\ system_health' = record_failure(system_health)
    /\ UNCHANGED <<is_connected, led_count, last_state, state_lock, flashing,
                   DEFAULT_MODE, env, ret, obs>>

(* blink_green_for_30s: record_button_press(); wled.flashing = True *)
RgbwGreenEntry(t) ==
    /\ At(t, "blink_green_for_30s", "rgbw_entry")
    /\ system_health' = record_button_press(system_health)
    /\ flashing' = TRUE
    /\ stack' = Become(t, [Top(t) EXCEPT !.pc = "rgbw_alert", !.elapsed = 0])
    /\ UNCHANGED <<is_connected, led_count, last_state, state_lock,
                   DEFAULT_MODE, devState, env, ret, obs>>

(* wled.set_alert_effect((0, 0, 255, 0), speed, (0, 0, 0, 0)) *)
RgbwGreenAlert(t) ==
    /\ At(t, "blink_green_for_30s", "rgbw_alert")
    /\ RgbwSetAlertEffect(t, AlertEffect(RgbwBlue, ShortSpeed, RgbwOff),
                          "rgbw_loop")

(* one pass of the while loop of the short pattern *)
RgbwGreenLoop(t) ==
    /\ At(t, "blink_green_for_30s", "rgbw_loop")
    /\ stack' =
          IF ~(Top(t).elapsed < SHORT_FLASH_DURATION /\ flashing)
          THEN Goto(t, "rgbw_revert")
          ELSE IF line = 0
               THEN IF Top(t).pressed_for = None
                    THEN Become(t, [Top(t) EXCEPT !.pressed_for = 0,
                                                  !.pc = "rgbw_sleep"])
                    ELSE IF Top(t).pressed_for >= LONG_PRESS_THRESHOLD
                         THEN Become(t, [Top(t) EXCEPT
                                            !.long_press_initiated = TRUE,
                                            !.pc = "rgbw_red"])
                         ELSE Goto(t, "rgbw_sleep")
               ELSE Become(t, [Top(t) EXCEPT !.pressed_for = None,
                                             !.pc = "rgbw_sleep"])
    /\ UNCHANGED <<is_connected, led_count, last_state, state_lock, flashing,
                   system_health, DEFAULT_MODE, devState, env, ret, obs>>

(* time.sleep(0.1) *)
RgbwGreenSleep(t) ==
    /\ At(t, "blink_green_for_30s", "rgbw_sleep")
    /\ stack' = Goto(t, "rgbw_loop")
    /\ UNCHANGED <<is_connected, led_count, last_state, state_lock, flashing,
                   system_health, DEFAULT_MODE, devState, env, ret, obs>>

(* wled.set_alert_effect((255, 0, 0, 0), speed, (0, 0, 0, 0)) *)
RgbwGreenRed(t) ==
    /\ At(t, "blink_green_for_30s", "rgbw_red")
    /\ RgbwSetAlertEffect(t, AlertEffect(RgbwRed, ShortSpeed, RgbwOff),
                          "rgbw_hold")

(* while GPIO.input(BUTTON_PIN) == 0 and wled.flashing: time.sleep(0.1) *)
RgbwGreenHold(t) ==
    /\ At(t, "blink_green_for_30s", "rgbw_hold")
    /\ ~(line = 0 /\ flashing)
    /\ stack' = Goto(t, "rgbw_revert")
    /\ UNCHANGED <<is_connected, led_count, last_state, state_lock, flashing,
                   system_health, DEFAULT_MODE, devState, env, ret, obs>>

(* blink_red_alert: wled.flashing = True *)
RgbwRedEntry(t) ==
    /\ At(t, "blink_red_alert", "rgbw_entry")
    /\ flashing' = TRUE
    /\ stack' = Become(t, [Top(t) EXCEPT !.pc = "rgbw_alert", !.elapsed = 0])
    /\ UNCHANGED <<is_connected, led_count, last_state, state_lock,
                   system_health, DEFAULT_MODE, devState, env, ret, obs>>

(* wled.set_alert_effect((0, 0, 255, 0), speed, (0, 0, 0, 0)) *)
RgbwRedAlert(t) ==
    /\ At(t, "blink_red_alert", "rgbw_alert")
    /\ RgbwSetAlertEffect(t, AlertEffect(RgbwBlue, AlertSpeed, RgbwOff),
                          "rgbw_loop")

(* while (time.time() - start_time < SHORT_FLASH_DURATION) and flashing *)
RgbwRedLoop(t) ==
    /\ At(t, "blink_red_alert", "rgbw_loop")
    /\ ~(Top(t).elapsed < SHORT_FLASH_DURATION /\ flashing)
    /\ stack' = Goto(t, "rgbw_revert")
    /\ UNCHANGED <<is_connected, led_count, last_state, state_lock, flashing,
                   system_health, DEFAULT_MODE, devState, env, ret, obs>>

(* revert_to_user_default(wled), then finally: wled.flashing = False *)
RgbwRevert(t) ==
    /\ stack[t] # <<>>
    /\ Top(t).pc = "rgbw_revert"
    /\ IF reachable = "up" /\ (DEFAULT_MODE = "white" => is_connected)
       THEN /\ devState' = RgbwDefault
            /\ system_health' = record_success(system_health)
       ELSE UNCHANGED <<devState, system_health>>
    /\ flashing' = FALSE
    /\ Returns(t, TRUE)
    /\ UNCHANGED <<is_connected, led_count, last_state, state_lock,
                   DEFAULT_MODE, env, obs>>

RgbwStep(t) ==
    \/ RgbwCall(t)
    \/ RgbwGreenEntry(t)
    \/ RgbwGreenAlert(t)
    \/ RgbwGreenLoop(t)
    \/ RgbwGreenSleep(t)
    \/ RgbwGreenRed(t)
    \/ RgbwGreenHold(t)
    \/ RgbwRedEntry(t)
    \/ RgbwRedAlert(t)
    \/ RgbwRedLoop(t)
    \/ RgbwRevert(t)

InitRGBW == InitWeb /\ is_connected

NextRGBW == (\E t \in Threads : RgbwStep(t)) \/ Tick \/ ButtonChange

SpecRGBW == InitRGBW /\ [][NextRGBW]_vars

(* the two colours of every payload a frame has sent are first and second *)
SentOnly(frame, first, second) ==
    \A i \in 1..Len(frame.sent) : frame.sent[i] = <<first, second>>

(* C23: in the RGBW variant every blink payload of the short pattern
   alternates blue (0,0,255,0) with white (0,0,0,255), and every blink
   payload of a long pattern (the red alert, the pre-emption of the short
   pattern) alternates red (255,0,0,0) with off (0,0,0,0) *)
C23_RgbwPayloads ==
    \A t \in Threads : \A i \in 1..Len(stack[t]) :
        LET frame == stack[t][i]
        IN  /\ (frame.fn = "blink_red_alert" /\ "sent" \in DOMAIN frame)
                  => SentOnly(frame, RgbwRed, RgbwOff)
            /\ (frame.fn = "blink_green_for_30s" /\ "sent" \in DOMAIN frame)
                  => \A k \in 1..Len(frame.sent) :
                        frame.sent[k] =
                           IF k = 1 THEN <<RgbwBlue, RgbwWhite>>
                                    ELSE <<RgbwRed, RgbwOff>>

(***************************************************************************)
(* Properties of the requests to /json/state                               *)
(***************************************************************************)
(* this step of thread t is a POST of _send_state or apply_effect *)
Posts(t) ==
    /\ \/ At(t, "_send_state", "post")
       \/ At(t, "apply_effect", "post")
    /\ \/ Len(stack'[t]) # Len(stack[t])
       \/ stack'[t][Len(stack[t])] # Top(t)

(* C24: while connected is false no POST to the state endpoint is made, by
   set_color, set_white, apply_effect, the retries of _send_state or
   revert_to_user_default, until a connect has succeeded again *)
C24_NoPostWhileDisconnected ==
    [][\A t \in Threads : Posts(t) => is_connected]_vars

(* the POST of an apply_effect call of thread t is answered in this step *)
EffectAnswered(t) ==
    /\ At(t, "apply_effect", "post")
    /\ stack'[t] # stack[t]

(* C25, as stated: apply_effect makes one POST, and on any failure of it,
   network error or non-success status alike, it records a failure, sets
   connected to false and returns false *)
C25_AnyFailureDisconnects ==
    [][\A t \in Threads :
          (EffectAnswered(t) /\ obs'[t].effect \in {"http", "net"})
              => /\ stack'[t] = SubSeq(stack[t], 1, Len(stack[t]) - 1)
                 /\ system_health'.failed_attempts
                        = system_health.failed_attempts + 1
                 /\ ~is_connected'
                 /\ ret'[t] = FALSE]_vars

(* C25, amended: apply_effect makes one POST and returns with its answer;
   a failure records a failure and returns false; a network error clears
   connected, a non-success status leaves connected as it was *)
C25_SingleAttempt ==
    [][\A t \in Threads :
          EffectAnswered(t)
              => /\ stack'[t] = SubSeq(stack[t], 1, Len(stack[t]) - 1)
                 /\ obs'[t].effect \in {"ok", "http", "net"}
                 /\ obs'[t].effect = "ok"
                       => /\ ret'[t] = TRUE
                          /\ devState' = EffectState(Top(t).effect_index)
                          /\ is_connected' = is_connected
                 /\ obs'[t].effect # "ok"
                       => /\ ret'[t] = FALSE
                          /\ devState' = devState
                          /\ system_health'.failed_attempts
                                = system_health.failed_attempts + 1
                          /\ system_health'.status \in {"degraded", "critical"}
                 /\ obs'[t].effect = "net" => ~is_connected'
                 /\ obs'[t].effect = "http"
                       => is_connected' = is_connected]_vars

C25_Witness ==
    \E t \in Threads :
        /\ stack[t] = <<>>
        /\ obs[t].effect = "http"
        /\ ret[t] = FALSE
        /\ is_connected
        /\ system_health.failed_attempts > 0

(***************************************************************************)
(* WLEDController.get_effects, called by the index route                   *)
(***************************************************************************)
(* bound: self._effects_cache_duration (300 seconds), in ticks of the clock *)
effects_cache_duration == 1

(* bound: the lists of effect names the device can answer with *)
Catalogs == {<<>>, <<"Solid">>, <<"Solid", "Blink">>}

(* the bodies of a 200 answer of /json that parse as JSON: an object with
   an "effects" list, an object without one, and a value that is no object *)
Bodies ==
    {[kind |-> "object", has_effects |-> TRUE, effects |-> e] :
        e \in Catalogs}
        \cup {[kind |-> "object", has_effects |-> FALSE, effects |-> <<>>],
              [kind |-> "array", has_effects |-> FALSE, effects |-> <<>>]}

(* json_data.get('effects', []) *)
EffectsOf(body) == IF body.has_effects THEN body.effects ELSE <<>>

(* the cache is not None and younger than the duration *)
Fresh(cache, current_time) ==
    /\ cache.cached
    /\ cache.time # -1
    /\ current_time - cache.time < effects_cache_duration

(* return self._effects_cache if self._effects_cache else [] *)
CachedOrEmpty(cache) == IF cache.cached THEN cache.effects ELSE <<>>

IndexFrame == [fn |-> "index", pc |-> "entry"]

GetEffectsFrame ==
    [fn |-> "get_effects", pc |-> "check", current_time |-> now]

EffectCallers == {"w1", "w2"}

(* a request reaches the index route *)
IndexRequest(t) ==
    /\ t \in EffectCallers
    /\ stack[t] = <<>>
    /\ stack' = [stack EXCEPT ![t] = <<IndexFrame>>]
    /\ UNCHANGED <<is_connected, led_count, last_state, state_lock, flashing,
                   system_health, DEFAULT_MODE, devState, env, ret, obs>>

(* if not wled.is_connected: effects = []
   else: effects = wled.get_effects(), with current_time = time.time() *)
IndexGetEffects(t) ==
    /\ At(t, "index", "entry")
    /\ stack' = IF ~is_connected
                THEN Goto(t, "render")
                ELSE Call(t, "render", GetEffectsFrame)
    /\ UNCHANGED <<is_connected, led_count, last_state, state_lock, flashing,
                   system_health, DEFAULT_MODE, devState, env, ret, obs>>

(* return render_template_string(...) *)
IndexRender(t) ==
    /\ At(t, "index", "render")
    /\ stack' = Pop(t)
    /\ UNCHANGED <<is_connected, led_count, last_state, state_lock, flashing,
                   system_health, DEFAULT_MODE, devState, env, ret, obs>>

(* the cache is still valid: return it; else go on to the GET *)
GetEffectsCheck(t) ==
    /\ At(t, "get_effects", "check")
    /\ IF Fresh(effects_cache, Top(t).current_time)
       THEN Returns(t, effects_cache.effects)
       ELSE /\ stack' = Goto(t, "get")
            /\ UNCHANGED ret
    /\ UNCHANGED <<is_connected, led_count, last_state, state_lock, flashing,
                   system_health, DEFAULT_MODE, devState, env, obs>>

(* 200 with an object: the cache and its time are set, the list returned *)
GetEffectsOk(t) ==
    /\ At(t, "get_effects", "get")
    /\ \E body \in Bodies :
          /\ body.kind = "object"
          /\ effects_cache' = [cached |-> TRUE, effects |-> EffectsOf(body),
                               time |-> Top(t).current_time]
          /\ Returns(t, EffectsOf(body))
    /\ system_health' = record_success(system_health)
    /\ UNCHANGED <<is_connected, led_count, last_state, state_lock, flashing,
                   DEFAULT_MODE, devState, role, line, newest, config,
                   recorded, reachable, ini, now, requests_per_ip, obs>>

(* 200 with a JSON value that is no object: json_data.get raises an
   AttributeError, which no except clause of get_effects catches *)
GetEffectsRaises(t) ==
    /\ At(t, "get_effects", "get")
    /\ \E body \in Bodies : body.kind # "object"
    /\ stack' = [stack EXCEPT ![t] = <<>>]
    /\ UNCHANGED <<is_connected, led_count, last_state, state_lock, flashing,
                   system_health, DEFAULT_MODE, devState, env, ret, obs>>

(* another status, a RequestException, or a body that is no JSON *)
GetEffectsFail(t) ==
    /\ At(t, "get_effects", "get")
    /\ CanFail
    /\ system_health' = record_failure(system_health)
    /\ Returns(t, CachedOrEmpty(effects_cache))
    /\ UNCHANGED <<is_connected, led_count, last_state, state_lock, flashing,
                   DEFAULT_MODE, devState, env, obs>>

EffectsStep(t) ==
    \/ IndexRequest(t)
    \/ IndexGetEffects(t)
    \/ IndexRender(t)
    \/ GetEffectsCheck(t)
    \/ GetEffectsOk(t)
    \/ GetEffectsRaises(t)
    \/ GetEffectsFail(t)

InitEffects == InitWeb /\ DEFAULT_MODE = "white"

NextEffects == (\E t \in Threads : EffectsStep(t)) \/ TimePasses

SpecEffects == InitEffects /\ [][NextEffects]_vars

(* C26: get_effects sends no request and returns the cached list while the
   cache is younger than its duration; otherwise it fetches and sets cache
   and time only on success; on any failure of the fetch it returns the
   list cached before, or an empty list, leaves cache and time unchanged,
   and it never raises *)
C26_EffectsCache ==
    [][\A t \in Threads :
          (stack[t] # <<>> /\ Top(t).fn = "get_effects"
             /\ stack'[t] # stack[t])
              => /\ Len(stack'[t]) >= Len(stack[t]) - 1
                 /\ (Top(t).pc = "check"
                       /\ Fresh(effects_cache, Top(t).current_time))
                       => /\ stack'[t] = SubSeq(stack[t], 1, Len(stack[t]) - 1)
                          /\ ret'[t] = effects_cache.effects
                          /\ effects_cache' = effects_cache
                 /\ (Top(t).pc = "check"
                       /\ ~Fresh(effects_cache, Top(t).current_time))
                       => /\ stack'[t][Len(stack[t])].pc = "get"
                          /\ effects_cache' = effects_cache
                 /\ Top(t).pc = "get"
                       => \/ /\ system_health'.status = "healthy"
                             /\ effects_cache' =
                                   [cached |-> TRUE, effects |-> ret'[t],
                                    time |-> Top(t).current_time]
                          \/ /\ system_health'.failed_attempts
                                   = system_health.failed_attempts + 1
                             /\ effects_cache' = effects_cache
                             /\ ret'[t] = CachedOrEmpty(effects_cache)]_vars

(***************************************************************************)
(* Properties of the flashing flag                                         *)
(***************************************************************************)
(* the routines that set wled.flashing = True *)
BlinkRoutines ==
    {"blink_green_for_30s", "blink_red_alert", "simulate_long_press"}

(* the frame on top of thread t calls set_color with a blink colour *)
PushesBlinkColour(t) ==
    /\ PushedOn(t, Len(stack[t]))
    /\ stack'[t][Len(stack[t]) + 1].fn = "set_color"
    /\ stack'[t][Len(stack[t]) + 1].state \in {RED, BLUE, OFF}

(* C28: every blink routine that sets flashing = true writes flashing =
   false as its last write before it returns, and no blink loop, the
   blinking of the hardware loop while the button is held included, pushes
   a colour while flashing is false *)
C28_FlashingGuardsBlinking ==
    [][\A t \in Threads :
          stack[t] # <<>> =>
            /\ (Top(t).fn \in BlinkRoutines
                  /\ Len(stack'[t]) = Len(stack[t]) - 1) => ~flashing'
            /\ (Top(t).fn \in BlinkRoutines \cup {"hardware_button_loop"}
                  /\ PushesBlinkColour(t)) => flashing]_vars

(***************************************************************************)
(* Properties of the cancellation by stop_flashing: the simulated presses  *)
(* of a connected client, with the calls of stop_flashing followed         *)
(***************************************************************************)
InitCancel ==
    /\ \/ FirstConnection
       \/ /\ is_connected = FALSE
          /\ led_count = 0
          /\ system_health = NewSystemHealth
    /\ last_state = NoState
    /\ state_lock = NoThread
    /\ flashing = FALSE
    /\ devState = NoState
    /\ line = 1
    /\ newest = NoThread
    /\ ret = [t \in Threads |-> FALSE]
    /\ obs = [t \in Threads |-> [NoObs EXCEPT !.sequence.after_stop = 0]]
    /\ recorded = NewRecorded
    /\ now = 0
    /\ requests_per_ip = NoRequests
    /\ effects_cache = NoCache
    /\ config = DefaultConfig
    /\ reachable = "up"
    /\ DEFAULT_MODE = "effect"
    /\ role = [t \in Threads |-> IF t \in {"w1", "w2"} THEN "web" ELSE "off"]
    /\ stack = [t \in Threads |-> <<>>]
    /\ ini = Saved(config, DEFAULT_MODE)

SpecCancel == InitCancel /\ [][NextWeb]_vars

(* C29: when stop_flashing clears the flag while a blink loop runs in
   another thread, that loop sees the cancellation: after it, the loop
   goes on to a push at most once more *)
C29_CancelledLoopStops ==
    [][\A t \in Threads :
          obs[t].sequence.after_stop = 2 => ~NextPush(t)]_vars

(***************************************************************************)
(* Properties of the blink sequences during an outage                      *)
(***************************************************************************)
(* thread t runs blink_green_for_30s or blink_red_alert *)
InSequence(t) ==
    Depth(t, "blink_green_for_30s") \/ Depth(t, "blink_red_alert")

(* C30: a failed push inside a blink loop neither aborts nor stalls the
   sequence: the auto_recover it calls comes back, whether or not the
   recovery succeeded, and the loop goes on with its next pass, even if
   the device stays unreachable *)
C30_FailedPushNeverStalls ==
    \A t \in Threads :
        (InSequence(t) /\ Depth(t, "auto_recover"))
            ~> ~Depth(t, "auto_recover")

(***************************************************************************)
(* Properties of the passes of the hardware button loop                    *)
(***************************************************************************)
(* thread t leaves the read of the line in this step *)
ReadsAndBranches(t) ==
    /\ At(t, "hardware_button_loop", "read")
    /\ Len(stack'[t]) >= Len(stack[t])
    /\ stack'[t][Len(stack[t])].pc # "read"

(* C31: every release the loop observes of a press it observed has exactly
   one of three outcomes: the short pattern if the held time is below
   LONG_PRESS_THRESHOLD, a revert to the default if the blinking during the
   hold had started, the red alert if the held time is at least the
   threshold and that blinking had not started; and the blinking during
   the hold starts only when the held time is at least the threshold *)
C31_ReleaseOutcome ==
    [][\A t \in Threads :
          ReadsAndBranches(t) =>
            LET f == Top(t)
                n == Len(stack[t])
                g == stack'[t][n]
            IN  /\ (f.pressed /\ line = 1)
                      => /\ Len(stack'[t]) = n + 1
                         /\ ~g.pressed
                         /\ ~g.blinking_red
                         /\ f.blinking_red => stack'[t][n + 1] = RevertFrame
                         /\ (~f.blinking_red /\ f.held < LONG_PRESS_THRESHOLD)
                               => stack'[t][n + 1] = BlinkGreenFrame
                         /\ (~f.blinking_red /\ f.held >= LONG_PRESS_THRESHOLD)
                               => stack'[t][n + 1] = BlinkRedFrame
                /\ ~(f.pressed /\ line = 1)
                      => \/ Len(stack'[t]) = n
                         \/ /\ Len(stack'[t]) = n + 1
                            /\ stack'[t][n + 1].fn = "set_color"
                            /\ stack'[t][n + 1].state \in {RED, OFF}
                            /\ g.blinking_red
                /\ (~f.blinking_red /\ g.blinking_red)
                      => /\ f.pressed
                         /\ line = 0
                         /\ f.held >= LONG_PRESS_THRESHOLD]_vars

(* the loop has seen a release after a short hold and has called the short
   pattern *)
C31_Witness ==
    /\ Len(stack["hw"]) = 2
    /\ stack["hw"][1].fn = "hardware_button_loop"
    /\ stack["hw"][1].pc = "sleep"
    /\ ~stack["hw"][1].pressed
    /\ stack["hw"][2] = BlinkGreenFrame
    /\ line = 1

(* C32: the fallback of the hardware button loop, a release observed with
   a held time of at least LONG_PRESS_THRESHOLD while the blinking during
   the hold never started, is never taken: the loop never calls
   blink_red_alert *)
C32_FallbackNeverTaken ==
    \A t \in Threads :
        ~(/\ Len(stack[t]) >= 2
          /\ stack[t][1].fn = "hardware_button_loop"
          /\ stack[t][2].fn = "blink_red_alert")

(***************************************************************************)
(* main: the start of the process.  The controller has been constructed,   *)
(* background_connect_wled and hardware_button_loop have been started as   *)
(* threads, and main applies the initial mode; nobody touches the button   *)
(* and the device answers every request.                                   *)
(***************************************************************************)
MainFrame == [fn |-> "main", pc |-> "apply"]

(* main: if DEFAULT_MODE == "white": set_white() elif "effect": apply_effect *)
MainApply(t) ==
    /\ At(t, "main", "apply")
    /\ stack' = Call(t, "run", RevertFrame)
    /\ UNCHANGED <<is_connected, led_count, last_state, state_lock, flashing,
                   system_health, DEFAULT_MODE, devState, env, ret, obs>>

(* the passes of the hardware loop while the button is left alone *)
IdleHardwareStep(t) ==
    \/ HardwareStartup(t)
    \/ HardwareLoop(t)
    \/ HardwareAfterRecover(t)
    \/ HardwareRead(t)
    \/ HardwareSleep(t)

InitStartup ==
    /\ InitController
    /\ config = DefaultConfig
    /\ reachable = "up"
    /\ DEFAULT_MODE \in {"white", "effect"}
    /\ role = [t \in Threads |->
                  CASE t = "hw" -> "hardware"
                    [] t = "sup" -> "supervisor"
                    [] t = "w1" -> "main"
                    [] OTHER -> "off"]
    /\ stack = [t \in Threads |->
                   CASE t = "hw" -> <<HardwareFrame>>
                     [] t = "sup" -> <<SupervisorFrame>>
                     [] t = "w1" -> <<MainFrame>>
                     [] OTHER -> <<>>]
    /\ ini = Saved(config, DEFAULT_MODE)

NextStartup ==
    \E t \in Threads :
        \/ AnsweredStep(t)
        \/ IdleHardwareStep(t)
        \/ SupervisorStep(t)
        \/ MainApply(t)

SpecStartup == InitStartup /\ [][NextStartup]_vars

(* thread t is inside the push of the initial mode *)
StartupPush(t) ==
    /\ Len(stack[t]) >= 2
    /\ \/ stack[t][1].fn = "hardware_button_loop" /\ stack[t][1].pc = "loop"
       \/ stack[t][1].fn = "main" /\ stack[t][1].pc = "run"

(* C33: at the start of the process the default appearance is sent to the
   device exactly once, and before the button loop reads the line for the
   first time *)
C33_DefaultSentOnceAtStartup ==
    /\ [][\A t \in Threads :
             (StartupPush(t) /\ Posts(t)) => devState = NoState]_vars
    /\ [](\A t \in Threads :
             At(t, "hardware_button_loop", "read")
                => devState = DefaultAppearance)

(***************************************************************************)
(* _send_state: the request is made outside self._state_lock and the       *)
(* payload is recorded under the lock afterwards.                          *)
(***************************************************************************)
(* the device shows a payload of _send_state, not an effect of apply_effect *)
ShowsPushedState == devState # NoState /\ devState[1] # "fx"

(* C34: once no push is in flight, last_state equals the payload that the
   device acknowledged last: acknowledgement and recording are atomic with
   respect to the pushes of other threads *)
C34_LastStateIsLastAcknowledged ==
    ((\A t \in Threads : ~Depth(t, "_send_state")) /\ ShowsPushedState)
        => last_state = devState

(***************************************************************************)
(* Reconnection: background_connect_wled and the auto_recover of the       *)
(* hardware loop both run wait_for_connection on the one controller.  The  *)
(* device fails a bounded number of info requests and answers every one    *)
(* after that.                                                             *)
(***************************************************************************)
ReconnectStep(t) ==
    \/ AnsweredStep(t)
    \/ IdleHardwareStep(t)
    \/ SupervisorStep(t)
    \/ MainApply(t)
    \/ InitializeGetFail(t)
    \/ InitializeFailed(t)

NextReconnect == \E t \in Threads : ReconnectStep(t)

SpecReconnect == InitStartup /\ [][NextReconnect]_vars

FairSpecReconnect ==
    SpecReconnect /\ \A t \in Threads : WF_vars(ReconnectStep(t))

(* wait_for_connection of thread t returns in this step *)
WaitReturns(t) ==
    /\ Len(stack[t]) >= 1
    /\ Top(t).fn = "wait_for_connection"
    /\ stack' = Pop(t)

(* C35: once the device answers every info request the controller becomes
   connected, and wait_for_connection never returns while the controller is
   disconnected, also when two threads run it at the same time *)
C35_ConnectsAndReturnsConnected ==
    /\ (~is_connected) ~> is_connected
    /\ [][\A t \in Threads : WaitReturns(t) => is_connected]_vars

(***************************************************************************)
(* Shutdown: app.run returns or is interrupted, and the finally of main    *)
(* sets stop_event, joins the two threads and cleans the controller up.    *)
(***************************************************************************)
(* app.run(...) ends *)
MainRun(t) ==
    /\ At(t, "main", "run")
    /\ stack' = Goto(t, "stop")
    /\ UNCHANGED <<is_connected, led_count, last_state, state_lock, flashing,
                   system_health, DEFAULT_MODE, devState, env, ret, obs>>

(* finally: stop_event.set() *)
MainStop(t) ==
    /\ At(t, "main", "stop")
    /\ stack' = Goto(t, "join_connect")
    /\ UNCHANGED <<is_connected, led_count, last_state, state_lock, flashing,
                   system_health, DEFAULT_MODE, devState, env, ret, obs>>

(* the thread of this role has ended *)
Ended(r) == \A u \in Threads : role[u] = r => stack[u] = <<>>

(* connect_thread.join() *)
MainJoinConnect(t) ==
    /\ At(t, "main", "join_connect")
    /\ Ended("supervisor")
    /\ stack' = Goto(t, "join_hardware")
    /\ UNCHANGED <<is_connected, led_count, last_state, state_lock, flashing,
                   system_health, DEFAULT_MODE, devState, env, ret, obs>>

(* hardware_thread.join() *)
MainJoinHardware(t) ==
    /\ At(t, "main", "join_hardware")
    /\ Ended("hardware")
    /\ stack' = Goto(t, "cleanup")
    /\ UNCHANGED <<is_connected, led_count, last_state, state_lock, flashing,
                   system_health, DEFAULT_MODE, devState, env, ret, obs>>

(* wled.cleanup(): self.stop_flashing() *)
CleanupStopFlashing(t) ==
    /\ At(t, "main", "cleanup")
    /\ flashing' = FALSE
    /\ stack' = Goto(t, "close")
    /\ UNCHANGED <<is_connected, led_count, last_state, state_lock,
                   system_health, DEFAULT_MODE, devState, env, ret, obs>>

(* wled.cleanup(): self._session.close() *)
CleanupClose(t) ==
    /\ At(t, "main", "close")
    /\ stack' = Goto(t, "done")
    /\ UNCHANGED <<is_connected, led_count, last_state, state_lock, flashing,
                   system_health, DEFAULT_MODE, devState, env, ret, obs>>

(* the while of the thread sees stop_event set: the thread ends *)
LoopExit(t) ==
    /\ \/ At(t, "background_connect_wled", "loop")
       \/ At(t, "hardware_button_loop", "loop")
    /\ Len(stack[t]) = 1
    /\ stop_event
    /\ stack' = Pop(t)
    /\ UNCHANGED <<is_connected, led_count, last_state, state_lock, flashing,
                   system_health, DEFAULT_MODE, devState, env, ret, obs>>

MainStep(t) ==
    \/ MainApply(t)
    \/ MainRun(t)
    \/ MainStop(t)
    \/ MainJoinConnect(t)
    \/ MainJoinHardware(t)
    \/ CleanupStopFlashing(t)
    \/ CleanupClose(t)

ProcessStep(t) ==
    \/ MainStep(t)
    \/ IdleHardwareStep(t)
    \/ SupervisorStep(t)
    \/ LoopExit(t)
    \/ LocalStep(t)
    \/ UpStep(t)
    \/ DownSendPost(t)
    \/ DownApplyEffect(t)
    \/ DownGetInfo(t)

InitShutdown ==
    /\ InitController
    /\ config = DefaultConfig
    /\ reachable \in {"up", "down"}
    /\ DEFAULT_MODE \in {"white", "effect"}
    /\ role = [t \in Threads |->
                  CASE t = "hw" -> "hardware"
                    [] t = "sup" -> "supervisor"
                    [] t = "w1" -> "main"
                    [] OTHER -> "off"]
    /\ stack = [t \in Threads |->
                   CASE t = "hw" -> <<HardwareFrame>>
                     [] t = "sup" -> <<SupervisorFrame>>
                     [] t = "w1" -> <<MainFrame>>
                     [] OTHER -> <<>>]
    /\ ini = Saved(config, DEFAULT_MODE)

NextShutdown ==
    \/ \E t \in Threads : ProcessStep(t)
    \/ DeviceFails
    \/ DeviceReturns

SpecShutdown == InitShutdown /\ [][NextShutdown]_vars

(* every thread keeps running *)
FairSpecShutdown ==
    SpecShutdown /\ \A t \in Threads : WF_vars(ProcessStep(t))

(* main is through wled.cleanup() *)
CleanedUp ==
    /\ At("w1", "main", "done")
    /\ Ended("supervisor")
    /\ Ended("hardware")
    /\ ~flashing

(* C36: after stop_event is set the button loop and the supervisor both end
   and main reaches cleanup, which clears flashing and then closes the
   session, also when the device is unreachable *)
C36_ShutdownCompletes == stop_event ~> CleanedUp

(***************************************************************************)
(* The hardware loop with the history of each press kept in its frame.     *)
(***************************************************************************)
InitPress ==
    /\ InitController
    /\ config = DefaultConfig
    /\ reachable \in {"up", "down"}
    /\ DEFAULT_MODE \in {"white", "effect"}
    /\ role = [t \in Threads |-> IF t = "hw" THEN "hardware" ELSE "off"]
    /\ stack = [t \in Threads |->
                   IF t = "hw"
                   THEN <<[HardwareFrame EXCEPT !.pushed = 0, !.asserted = 0]>>
                   ELSE <<>>]
    /\ ini = Saved(config, DEFAULT_MODE)

SpecPress == InitPress /\ [][NextHardware]_vars

(* the read of thread t finds the button, which it knew pressed, let go *)
ReadsRelease(t) ==
    /\ ReadsAndBranches(t)
    /\ Top(t).pressed
    /\ line = 1

(* C37: a press that the loop has taken for a long one (it blinks red while
   the button is held) has had set_color called with red at least once when
   its release is handled by the revert to the default *)
C37_LongPressPushesRed ==
    [][\A t \in Threads :
          (ReadsRelease(t) /\ Top(t).blinking_red) => Top(t).pushed = 1]_vars

(* C38: a press whose line was asserted for less than LONG_PRESS_THRESHOLD
   is not handled as a long press: the read neither starts the red blinking
   nor calls blink_red_alert *)
C38_ShortPressNeverLong ==
    [][\A t \in Threads :
          (/\ ReadsAndBranches(t)
           /\ Top(t).pressed
           /\ Top(t).asserted # None
           /\ Top(t).asserted < LONG_PRESS_THRESHOLD)
             => LET n == Len(stack[t])
                IN  /\ ~stack'[t][n].blinking_red
                    /\ Len(stack'[t]) > n => stack'[t][n + 1] # BlinkRedFrame]_vars

====
